---------------------------- MODULE Spec2Model ----------------------------
(***************************************************************************)
(* Graph-theory labs: the adjacency-matrix Graph (src/3/graph.py) with     *)
(* dijkstra and prim, and the lab4 engines edmonds_karp (flow.py),         *)
(* check_bipartite / hopcroft_karp (matching.py) and a_star                *)
(* (pathfinding.py).                                                       *)
(*                                                                         *)
(* Floats that the code uses are modelled by integers (every weight,       *)
(* capacity and cost drawn here is a small integer, which a float holds    *)
(* exactly); float("inf") is the number Inf, with Plus saturating at it.   *)
(* An optional float (float | None) is a sequence: None is << >>, the      *)
(* number w is <<w>>.                                                      *)
(***************************************************************************)
EXTENDS Integers, Sequences, FiniteSets, TLC

VARIABLES
    pc,           \* position of the running call ("idle" between calls)
    n,            \* Graph.n; the n argument of edmonds_karp and solve_matching
    adj_matrix,   \* Graph.adj_matrix: row -> column -> optional weight
    graph_type,   \* Graph.graph_type
    rt,           \* history: the add_edge / remove_edge pair last made
    start,        \* dijkstra, prim: the start argument
    end,          \* dijkstra: the end argument; prim: the vertex whose path is rebuilt
    dist,         \* dijkstra: dist; prim: min_edge
    prev,         \* dijkstra, prim: prev
    queue,        \* dijkstra, prim: the heap, as the set of its entries
    current,      \* prim: current, the vertex the walk along prev stands on
    path,         \* prim: path, the vertices the walk has collected
    result,       \* what the call returned
    edges,        \* edmonds_karp, solve_matching: the edges argument
    source,       \* edmonds_karp: the source argument
    sink,         \* edmonds_karp: the sink argument
    graph,        \* edmonds_karp: graph, the residual network
    forward_edges,\* edmonds_karp: forward_edges, as places <<v, i>> in graph
    max_flow,     \* edmonds_karp: max_flow
    colors,       \* check_bipartite: colors
    left_partition, \* hopcroft_karp: left_partition
    forward_adj,  \* hopcroft_karp: forward_adj
    pair_v,       \* hopcroft_karp: pair_v
    pair_u,       \* hopcroft_karp: pair_u
    todo,         \* hopcroft_karp: what "for u in left_partition" has yet to visit
    phases,       \* hopcroft_karp: how often the body of "while bfs()" has begun
    grid,         \* a_star, solve_grid: the grid argument
    goal,         \* a_star, solve_grid: the goal argument
    heuristic,    \* a_star: the heuristic argument, by name
    visited_count,\* a_star: visited_count
    caller,       \* "a_star" when a_star is called directly, "solve_grid" otherwise
    results,      \* solve_grid: the entries of its dictionary filled so far
    command,      \* lab4 main: the command that runs, "none" outside the CLI
    exit_code,    \* lab4 main: the exit code of the process, once it has one
    output        \* lab4 main: what the output file holds, once written

gvars == <<n, adj_matrix, graph_type, rt>>

svars == <<start, end, dist, prev, queue, current, path, result>>

fvars == <<edges, source, sink, graph, forward_edges, max_flow>>

mvars == <<colors, left_partition, forward_adj, pair_v, pair_u, todo, phases>>

avars == <<grid, goal, heuristic, visited_count, caller, results>>

cvars == <<command, exit_code, output>>

lab4vars == <<fvars, mvars, avars, cvars>>

vars == <<pc, gvars, svars, lab4vars>>

\* What the Graph's methods leave alone
notGraph == <<svars, lab4vars>>

----------------------------------------------------------------------------
(* Bounds and input samples *)

\* Largest number of vertices a Graph grows to
MaxN == 2

\* Edge weights handed to add_edge
Weights == {1, 2}

\* Edge weights handed to add_edge while the add_edge / remove_edge pairs
\* are recorded
TripWeights == {1}

\* Largest number of vertices of a Graph handed to dijkstra or prim
AlgN == 3

\* Largest number of edges (arcs, in a directed graph) of such a Graph
MaxEdges == 3

\* Weights of the edges of a Graph handed to dijkstra
AlgWeights == {0, 2}

\* Weights of the edges of a Graph handed to prim
PrimWeights == {0, 1, 5}

\* float("inf")
Inf == 1000000

\* Largest number of vertices of a flow network
FlowN == 2

\* Largest number of edges of a flow network
MaxFlowEdges == 2

\* Capacities of its edges
Capacities == {1, 2}

\* Largest number of vertices of a graph handed to solve_matching
MatchN == 4

\* Largest number of edges of such a graph
MaxMatchEdges == 3

\* Largest number of cells of a grid handed to a_star or solve_grid
MaxCells == 4

\* Values of its cells: 0 is a wall, the others the cost of entering
GridValues == {0, 1, 2}

\* Vertex arguments handed to the Graph's methods: in range, beyond the
\* end, and negative (which Python indexes from the end of a list)
VertexArgs == (0 - MaxN - 1) .. MaxN

----------------------------------------------------------------------------
(* Optional floats *)

None == << >>

Some(w) == <<w>>

Val(o) == o[1]

Max(a, b) == IF a >= b THEN a ELSE b

Min(a, b) == IF a <= b THEN a ELSE b

----------------------------------------------------------------------------
(* Graph (src/3/graph.py) *)

\* Graph.__init__ without a file: size vertices, no edge, zero diagonal
EmptyMatrix(size) ==
    [i \in 0 .. size - 1 |->
        [j \in 0 .. size - 1 |-> IF i = j THEN Some(0) ELSE None]]

\* The Graph object as a value
Graph == [n |-> n, adj_matrix |-> adj_matrix, graph_type |-> graph_type]

\* Graph.weight: None when either index is outside 0..n-1
weight(g, a_i, b_i) ==
    IF 0 <= a_i /\ a_i < g.n /\ 0 <= b_i /\ b_i < g.n
    THEN g.adj_matrix[a_i][b_i]
    ELSE None

\* Graph.is_edge
is_edge(g, a_i, b_i) == weight(g, a_i, b_i) # None /\ a_i # b_i

\* Python list indexing: i is a valid index of a list of length len
IndexOK(i, len) == 0 - len <= i /\ i < len

\* Python list indexing: the position a valid index i names
PyIndex(i, len) == IF i < 0 THEN i + len ELSE i

\* adj_matrix[a_i][b_i] = value, both indices valid
SetItem(m, size, a_i, b_i, value) ==
    [m EXCEPT ![PyIndex(a_i, size)][PyIndex(b_i, size)] = value]

\* A mutant of add_vertex: the new rows are copies of one row whose diagonal
\* entry is that of the first new vertex
add_vertex_shared_row(g, a_i) ==
    IF a_i < g.n
    THEN g
    ELSE [g EXCEPT
            !.n = a_i + 1,
            !.adj_matrix =
                [i \in 0 .. a_i |->
                    [j \in 0 .. a_i |->
                        IF i < g.n /\ j < g.n THEN g.adj_matrix[i][j]
                        ELSE IF i >= g.n /\ j = g.n THEN Some(0)
                        ELSE None]]]

\* Graph.add_vertex
add_vertex(g, a_i) ==
    IF a_i < g.n
    THEN g
    ELSE [g EXCEPT
            !.n = a_i + 1,
            !.adj_matrix =
                [i \in 0 .. a_i |->
                    [j \in 0 .. a_i |->
                        IF i < g.n /\ j < g.n THEN g.adj_matrix[i][j]
                        ELSE IF i >= g.n /\ i = j THEN Some(0)
                        ELSE None]]]

\* A mutant of add_edge: the mirrored assignment of an undirected graph is lost
add_edge_no_mirror(g, a_i, b_i, w) ==
    LET highest_vert == Max(a_i, b_i)
        g1 == IF highest_vert >= g.n THEN add_vertex(g, highest_vert) ELSE g
    IN  IF ~(IndexOK(a_i, g1.n) /\ IndexOK(b_i, g1.n))
        THEN g1
        ELSE [g1 EXCEPT !.adj_matrix = SetItem(@, g1.n, a_i, b_i, Some(w))]

\* Graph.add_edge.  An index below -n raises IndexError at the first
\* assignment, after add_vertex has grown the matrix.
add_edge(g, a_i, b_i, w) ==
    LET highest_vert == Max(a_i, b_i)
        g1 == IF highest_vert >= g.n THEN add_vertex(g, highest_vert) ELSE g
    IN  IF ~(IndexOK(a_i, g1.n) /\ IndexOK(b_i, g1.n))
        THEN g1
        ELSE LET m1 == SetItem(g1.adj_matrix, g1.n, a_i, b_i, Some(w))
             IN  [g1 EXCEPT !.adj_matrix =
                    IF g.graph_type = "UNDIRECTED"
                    THEN SetItem(m1, g1.n, b_i, a_i, Some(w))
                    ELSE m1]

\* A mutant of remove_vertex: row a_i and the last column go
remove_vertex_last_column(g, a_i) ==
    IF ~(0 <= a_i /\ a_i < g.n)
    THEN g
    ELSE LET old(x) == IF x < a_i THEN x ELSE x + 1
         IN  [g EXCEPT
                !.n = g.n - 1,
                !.adj_matrix =
                    [i \in 0 .. g.n - 2 |->
                        [j \in 0 .. g.n - 2 |-> g.adj_matrix[old(i)][j]]]]

\* Graph.remove_vertex: row and column a_i go, later vertices move down
remove_vertex(g, a_i) ==
    IF ~(0 <= a_i /\ a_i < g.n)
    THEN g
    ELSE LET old(x) == IF x < a_i THEN x ELSE x + 1
         IN  [g EXCEPT
                !.n = g.n - 1,
                !.adj_matrix =
                    [i \in 0 .. g.n - 2 |->
                        [j \in 0 .. g.n - 2 |-> g.adj_matrix[old(i)][old(j)]]]]

\* A mutant of remove_edge: existing weights are kept, only the call is made
remove_edge_keeps(g, a_i, b_i) == g

\* Graph.remove_edge
remove_edge(g, a_i, b_i) ==
    IF ~(0 <= a_i /\ a_i < g.n /\ 0 <= b_i /\ b_i < g.n)
    THEN g
    ELSE LET m1 == SetItem(g.adj_matrix, g.n, a_i, b_i, None)
         IN  [g EXCEPT !.adj_matrix =
                IF g.graph_type = "UNDIRECTED"
                THEN SetItem(m1, g.n, b_i, a_i, None)
                ELSE m1]

----------------------------------------------------------------------------
(* The Graph's methods as actions *)

\* rt when no add_edge / remove_edge pair is under way, and when none is recorded
NoTrip == [stage |-> "none"]

TripOff == [stage |-> "off"]

Untrip == IF rt = TripOff THEN TripOff ELSE NoTrip

\* rt when the calls made are recorded: before the first call, and after the
\* call op(a, b, w) (an argument the method does not take is recorded as 0)
CallsOn == [stage |-> "start"]

Called(op, a, b, w) == [stage |-> "call", op |-> op, a |-> a, b |-> b, w |-> w]

Recording == rt.stage \in {"start", "call"}

\* The vertex arguments of a recorded call: negative, in range, out of range
CallArgs == (0 - 1) .. MaxN

Args == IF Recording THEN CallArgs ELSE VertexArgs

SetGraph(g) ==
    /\ n' = g.n
    /\ adj_matrix' = g.adj_matrix
    /\ graph_type' = g.graph_type

\* Graph(size = size, graph_type = t)
InitGraph ==
    /\ n \in 0 .. MaxN
    /\ adj_matrix = EmptyMatrix(n)
    /\ graph_type \in {"DIRECTED", "UNDIRECTED"}

AddVertex ==
    \E a_i \in Args :
        /\ pc = "idle"
        /\ a_i < MaxN
        /\ SetGraph(add_vertex(Graph, a_i))
        /\ rt' = IF Recording THEN Called("add_vertex", a_i, 0, 0) ELSE Untrip
        /\ UNCHANGED <<pc, notGraph>>

AddEdge(W) ==
    \E a_i \in Args, b_i \in Args, w \in W :
        /\ pc = "idle"
        /\ Max(a_i, b_i) < MaxN
        /\ SetGraph(add_edge(Graph, a_i, b_i, w))
        /\ rt' = IF Recording THEN Called("add_edge", a_i, b_i, w)
                 ELSE IF rt # TripOff /\ 0 <= a_i /\ a_i < n /\ 0 <= b_i /\ b_i < n
                 THEN [stage |-> "added", a |-> a_i, b |-> b_i, before |-> Graph]
                 ELSE Untrip
        /\ UNCHANGED <<pc, notGraph>>

RemoveVertex ==
    \E a_i \in Args :
        /\ pc = "idle"
        /\ SetGraph(remove_vertex(Graph, a_i))
        /\ rt' = IF Recording THEN Called("remove_vertex", a_i, 0, 0) ELSE Untrip
        /\ UNCHANGED <<pc, notGraph>>

RemoveEdge ==
    \E a_i \in Args, b_i \in Args :
        /\ pc = "idle"
        /\ SetGraph(remove_edge(Graph, a_i, b_i))
        /\ rt' = IF Recording THEN Called("remove_edge", a_i, b_i, 0)
                 ELSE IF rt.stage = "added" /\ rt.a = a_i /\ rt.b = b_i
                 THEN [rt EXCEPT !.stage = "removed"]
                 ELSE Untrip
        /\ UNCHANGED <<pc, notGraph>>

\* No call of dijkstra or prim is under way
NoSearch ==
    /\ start = 0
    /\ end = 0
    /\ dist = << >>
    /\ prev = << >>
    /\ queue = {}
    /\ current = << >>
    /\ path = << >>
    /\ result = << >>

\* No call of edmonds_karp is under way
NoFlow ==
    /\ edges = << >>
    /\ source = 0
    /\ sink = 0
    /\ graph = << >>
    /\ forward_edges = << >>
    /\ max_flow = 0

\* No call of solve_matching is under way
NoMatch ==
    /\ colors = << >>
    /\ left_partition = {}
    /\ forward_adj = << >>
    /\ pair_v = << >>
    /\ pair_u = << >>
    /\ todo = << >>
    /\ phases = 0

\* No call of a_star or solve_grid is under way
NoAStar ==
    /\ grid = << >>
    /\ goal = <<0, 0>>
    /\ heuristic = "manhattan"
    /\ visited_count = 0
    /\ caller = "a_star"
    /\ results = << >>

\* No command of lab4's main runs
NoCli ==
    /\ command = "none"
    /\ exit_code = None
    /\ output = None

NoLab4 == NoFlow /\ NoMatch /\ NoAStar /\ NoCli

\* What is left of a command once the function it called has returned or
\* raised (pc' = "done"): the report is written and the process exits with
\* 0; an exception that nothing catches ends the process with 1
Completes ==
    /\ command' = command
    /\ IF command = "none" \/ pc' # "done"
       THEN UNCHANGED <<exit_code, output>>
       ELSE IF command = "shortest_path" /\ "raised" \in DOMAIN result'
       THEN exit_code' = Some(1) /\ UNCHANGED output
       ELSE exit_code' = Some(0) /\ output' = Some(result')

GraphInit ==
    /\ pc = "idle"
    /\ InitGraph
    /\ NoSearch
    /\ NoLab4
    /\ rt = TripOff

GraphNext ==
    \/ AddVertex
    \/ AddEdge(Weights)
    \/ RemoveVertex
    \/ RemoveEdge

\* Any sequence of calls on a Graph created empty
SpecGraph == GraphInit /\ [][GraphNext]_vars

CallsInit ==
    /\ pc = "idle"
    /\ InitGraph
    /\ NoSearch
    /\ NoLab4
    /\ rt = CallsOn

CallsNext ==
    \/ AddVertex
    \/ AddEdge(TripWeights)
    \/ RemoveVertex
    \/ RemoveEdge

\* Any sequence of calls on a Graph created empty, the last call recorded
SpecGraphCalls == CallsInit /\ [][CallsNext]_vars

TripInit ==
    /\ pc = "idle"
    /\ InitGraph
    /\ NoSearch
    /\ NoLab4
    /\ rt = NoTrip

TripNext ==
    \/ AddVertex
    \/ AddEdge(TripWeights)
    \/ RemoveVertex
    \/ RemoveEdge

\* The same calls, with each add_edge(a, b, w) on in-range a, b and the
\* remove_edge(a, b) that follows it recorded in rt
SpecRoundTrip == TripInit /\ [][TripNext]_vars

----------------------------------------------------------------------------
(* Claims about the Graph *)

\* C6: in an undirected Graph, after any sequence of add_vertex, add_edge,
\* remove_vertex and remove_edge calls, weight(i, j) = weight(j, i) for every
\* pair of in-range vertices.
C6_UndirectedSymmetric ==
    graph_type = "UNDIRECTED" =>
        \A i \in 0 .. n - 1, j \in 0 .. n - 1 :
            weight(Graph, i, j) = weight(Graph, j, i)

\* An undirected Graph of full size holding an edge
C6_Witness ==
    /\ graph_type = "UNDIRECTED"
    /\ n = MaxN
    /\ \E i \in 0 .. n - 1, j \in 0 .. n - 1 :
            i # j /\ weight(Graph, i, j) \in {Some(w) : w \in Weights}

\* C7 (as claimed): after any sequence of calls, add_edge(a, a, w) and
\* remove_edge(a, a) included, weight(i, i) = 0 for every in-range vertex i.
C7_DiagonalZero ==
    \A i \in 0 .. n - 1 : weight(Graph, i, i) = Some(0)

----------------------------------------------------------------------------
(* dijkstra (src/3/graph.py) *)

\* float addition, saturating at float("inf")
Plus(a, b) == IF a = Inf \/ b = Inf THEN Inf ELSE a + b

\* Tuples <<key, vertex>> as Python orders them
TupleLess(x, y) == x[1] < y[1] \/ (x[1] = y[1] /\ x[2] < y[2])

\* heapq.heappop: the smallest entry of a non-empty heap
HeapMin(q) == CHOOSE x \in q : \A y \in q : x = y \/ TupleLess(x, y)

\* The state of dijkstra's locals when its loop is entered
dijkstra_enter(g, s) ==
    [dist  |-> [v \in 0 .. g.n - 1 |-> IF v = s THEN 0 ELSE Inf],
     prev  |-> [v \in 0 .. g.n - 1 |-> None],
     queue |-> {<<0, s>>},
     brk   |-> FALSE]

\* The vertices u whose distance the relaxation from v improves
Improved(g, d, v) ==
    {u \in 0 .. g.n - 1 :
        /\ weight(g, v, u) # None
        /\ v # u
        /\ Plus(d[v], Val(weight(g, v, u))) < d[u]}

\* A mutant of Relax: a vertex keeps the first parent it was given
Relax_first_parent(g, loc, v) ==
    LET new_dist(u) == Plus(loc.dist[v], Val(weight(g, v, u)))
        better == Improved(g, loc.dist, v)
    IN  [loc EXCEPT
            !.dist  = [u \in 0 .. g.n - 1 |->
                          IF u \in better THEN new_dist(u) ELSE loc.dist[u]],
            !.prev  = [u \in 0 .. g.n - 1 |->
                          IF u \in better /\ loc.prev[u] = None
                          THEN Some(v) ELSE loc.prev[u]],
            !.queue = loc.queue \cup {<<new_dist(u), u>> : u \in better}]

\* for u in range(n): relax the edge v -> u.  v # u, so no step of the loop
\* reads what another wrote
Relax(g, loc, v) ==
    LET new_dist(u) == Plus(loc.dist[v], Val(weight(g, v, u)))
        better == Improved(g, loc.dist, v)
    IN  [loc EXCEPT
            !.dist  = [u \in 0 .. g.n - 1 |->
                          IF u \in better THEN new_dist(u) ELSE loc.dist[u]],
            !.prev  = [u \in 0 .. g.n - 1 |->
                          IF u \in better THEN Some(v) ELSE loc.prev[u]],
            !.queue = loc.queue \cup {<<new_dist(u), u>> : u \in better}]

\* A mutant of dijkstra_iter: the loop is left as soon as end is first reached
\* by a relaxation, not when it is popped
dijkstra_iter_stop_on_push(g, loc, e) ==
    LET top == HeapMin(loc.queue)
        cur_dist == top[1]
        v == top[2]
        popped == [loc EXCEPT !.queue = loc.queue \ {top}]
    IN  IF cur_dist > loc.dist[v] THEN popped
        ELSE IF v = e THEN [popped EXCEPT !.brk = TRUE]
        ELSE [Relax(g, popped, v) EXCEPT !.brk = e \in Improved(g, loc.dist, v)]

\* One pass of dijkstra's while loop over a non-empty queue
dijkstra_iter(g, loc, e) ==
    LET top == HeapMin(loc.queue)
        cur_dist == top[1]
        v == top[2]
        popped == [loc EXCEPT !.queue = loc.queue \ {top}]
    IN  IF cur_dist > loc.dist[v] THEN popped
        ELSE IF v = e THEN [popped EXCEPT !.brk = TRUE]
        ELSE Relax(g, popped, v)

\* The walk from e along prev until None, in reverse: the path to e.  The
\* walk is cut after fuel steps (a walk that meets a cycle never ends).
RECURSIVE WalkBack(_, _, _)
WalkBack(pr, cur, fuel) ==
    IF cur = None \/ fuel = 0 THEN << >>
    ELSE Append(WalkBack(pr, pr[Val(cur)], fuel - 1), Val(cur))

\* A mutant of dijkstra_result: the path is rebuilt without the test for an
\* infinite distance, as dijkstra_all rebuilds it
dijkstra_result_untested(g, loc, e) ==
    <<Some(loc.dist[e]), WalkBack(loc.prev, Some(e), g.n + 1)>>

\* dijkstra's return value: <<distance, path>>
dijkstra_result(g, loc, e) ==
    IF loc.dist[e] = Inf
    THEN <<Some(Inf), << >> >>
    ELSE <<Some(loc.dist[e]), WalkBack(loc.prev, Some(e), g.n + 1)>>

----------------------------------------------------------------------------
(* A Graph is built, then dijkstra is called on it *)

\* The number of edges of g: arcs i -> j, i # j, each edge of an undirected
\* graph counted once
EdgeCount(g) ==
    LET arcs == {p \in (0 .. g.n - 1) \X (0 .. g.n - 1) :
                    p[1] # p[2] /\ g.adj_matrix[p[1]][p[2]] # None}
    IN  IF g.graph_type = "UNDIRECTED"
        THEN Cardinality(arcs) \div 2
        ELSE Cardinality(arcs)

\* The Graph of the first scenario: undirected, n = 4, edges (0,1,1),
\* (1,2,1), (2,3,1), (0,3,4)
Scenario1 ==
    LET g0 == [n |-> 4, adj_matrix |-> EmptyMatrix(4), graph_type |-> "UNDIRECTED"]
    IN  add_edge(add_edge(add_edge(add_edge(g0, 0, 1, 1), 1, 2, 1), 2, 3, 1), 0, 3, 4)

\* Graph(size = k, graph_type = t), or the Graph of the first scenario
BuildInit ==
    /\ pc = "build"
    /\ rt = TripOff
    /\ \/ /\ n \in 1 .. AlgN
          /\ adj_matrix = EmptyMatrix(n)
          /\ graph_type \in {"DIRECTED", "UNDIRECTED"}
       \/ /\ n = Scenario1.n
          /\ adj_matrix = Scenario1.adj_matrix
          /\ graph_type = Scenario1.graph_type
    /\ NoSearch
    /\ NoLab4

\* add_edge(a, b, w) between distinct vertices of the Graph
BuildEdge(W) ==
    \E a_i \in 0 .. n - 1, b_i \in 0 .. n - 1, w \in W :
        /\ pc = "build"
        /\ a_i # b_i
        /\ EdgeCount(add_edge(Graph, a_i, b_i, w)) <= MaxEdges
        /\ SetGraph(add_edge(Graph, a_i, b_i, w))
        /\ UNCHANGED <<pc, rt, notGraph>>

\* A mutant of DijkstraCall: out-of-range arguments get the result of an
\* unreachable end
DijkstraCall_inf_sentinel ==
    \E s \in -1 .. n, e \in -1 .. n :
        /\ pc = "build"
        /\ start' = s
        /\ end' = e
        /\ IF ~(0 <= s /\ s < n /\ 0 <= e /\ e < n)
           THEN /\ result' = <<Some(Inf), << >> >>
                /\ pc' = "done"
                /\ UNCHANGED <<dist, prev, queue>>
           ELSE /\ dist' = dijkstra_enter(Graph, s).dist
                /\ prev' = dijkstra_enter(Graph, s).prev
                /\ queue' = dijkstra_enter(Graph, s).queue
                /\ pc' = "dijkstra_loop"
                /\ UNCHANGED result
        /\ UNCHANGED <<gvars, lab4vars, current, path>>

\* dijkstra(graph, s, e), up to the while loop
DijkstraCall ==
    \E s \in -1 .. n, e \in -1 .. n :
        /\ pc = "build"
        /\ start' = s
        /\ end' = e
        /\ IF ~(0 <= s /\ s < n /\ 0 <= e /\ e < n)
           THEN /\ result' = <<None, << >> >>
                /\ pc' = "done"
                /\ UNCHANGED <<dist, prev, queue>>
           ELSE /\ dist' = dijkstra_enter(Graph, s).dist
                /\ prev' = dijkstra_enter(Graph, s).prev
                /\ queue' = dijkstra_enter(Graph, s).queue
                /\ pc' = "dijkstra_loop"
                /\ UNCHANGED result
        /\ UNCHANGED <<gvars, lab4vars, current, path>>

\* One pass of the while loop; the loop ends at break and on an empty queue
DijkstraIter ==
    /\ pc = "dijkstra_loop"
    /\ queue # {}
    /\ LET loc == dijkstra_iter(Graph,
                    [dist |-> dist, prev |-> prev, queue |-> queue, brk |-> FALSE],
                    end)
       IN  /\ dist' = loc.dist
           /\ prev' = loc.prev
           /\ queue' = loc.queue
           /\ pc' = IF loc.brk \/ loc.queue = {} THEN "dijkstra_path" ELSE pc
    /\ UNCHANGED <<gvars, lab4vars, start, end, current, path, result>>

\* The code after the loop
DijkstraReturn ==
    /\ pc = "dijkstra_path"
    /\ result' = dijkstra_result(Graph,
                    [dist |-> dist, prev |-> prev, queue |-> queue], end)
    /\ pc' = "done"
    /\ UNCHANGED <<gvars, lab4vars, start, end, dist, prev, queue, current, path>>

DijkstraNext ==
    \/ BuildEdge(AlgWeights)
    \/ DijkstraCall
    \/ DijkstraIter
    \/ DijkstraReturn

SpecDijkstra == BuildInit /\ [][DijkstraNext]_vars

----------------------------------------------------------------------------
(* Claims about dijkstra *)

\* The edges of g, as the claims speak of them
Arcs(g) ==
    {p \in (0 .. g.n - 1) \X (0 .. g.n - 1) : is_edge(g, p[1], p[2])}

\* The least total weight of a path from s to each vertex using at most k
\* edges (Inf: no such path)
RECURSIVE LeastWeight(_, _, _)
LeastWeight(g, s, k) ==
    IF k = 0 THEN [v \in 0 .. g.n - 1 |-> IF v = s THEN 0 ELSE Inf]
    ELSE LET d == LeastWeight(g, s, k - 1)
             via(v) == {d[v]} \cup
                       {Plus(d[u], Val(weight(g, u, v))) :
                            u \in {x \in 0 .. g.n - 1 : <<x, v>> \in Arcs(g)}}
         IN  [v \in 0 .. g.n - 1 |->
                CHOOSE x \in via(v) : \A y \in via(v) : x <= y]

\* The least total weight over all paths from s to e
ShortestDistance(g, s, e) == LeastWeight(g, s, g.n - 1)[e]

InRange(g, v) == 0 <= v /\ v < g.n

\* C1: for non-negative weights and in-range start and end, dijkstra returns
\* as distance the least total weight over all start-to-end paths (so stopping
\* when the target is popped loses nothing); the first scenario gives
\* distance 3 with path [0, 1, 2, 3] from 0 to 3.
C1_DijkstraShortest ==
    (pc = "done" /\ InRange(Graph, start) /\ InRange(Graph, end)) =>
        /\ result[1] = Some(ShortestDistance(Graph, start, end))
        /\ (Graph = Scenario1 /\ start = 0 /\ end = 3) =>
                result = <<Some(3), <<0, 1, 2, 3>> >>

\* dijkstra(0, 3) has returned on the Graph of the first scenario
C1_Witness ==
    /\ pc = "done"
    /\ Graph = Scenario1
    /\ start = 0
    /\ end = 3
    /\ result = <<Some(3), <<0, 1, 2, 3>> >>

----------------------------------------------------------------------------
(* prim (src/3/graph.py) *)

\* x or float("inf"): None and 0.0 are both false in Python
OrInf(o) == IF o = None \/ o = Some(0) THEN Inf ELSE Val(o)

\* min(graph.weight(v, u) or inf, graph.weight(u, v) or inf)
min_weight(g, v, u) == Min(OrInf(weight(g, v, u)), OrInf(weight(g, u, v)))

\* The vertices u to which the edge from v is lighter than min_edge[u]
Lighter(g, me, v) ==
    {u \in 0 .. g.n - 1 :
        /\ v # u
        /\ min_weight(g, v, u) # Inf
        /\ me[u] > min_weight(g, v, u)}

\* The state of prim's locals when its loop is entered (dist is min_edge)
prim_enter(g, s) ==
    [dist  |-> [v \in 0 .. g.n - 1 |-> IF v = s THEN 0 ELSE Inf],
     prev  |-> [v \in 0 .. g.n - 1 |-> None],
     queue |-> {<<0, s>>}]

\* One pass of prim's while loop over a non-empty queue
prim_iter(g, loc) ==
    LET top == HeapMin(loc.queue)
        cur_weight == top[1]
        v == top[2]
        popped == [loc EXCEPT !.queue = loc.queue \ {top}]
        lighter == Lighter(g, loc.dist, v)
    IN  IF cur_weight > loc.dist[v] THEN popped
        ELSE [popped EXCEPT
                !.dist  = [u \in 0 .. g.n - 1 |->
                              IF u \in lighter THEN min_weight(g, v, u)
                              ELSE loc.dist[u]],
                !.prev  = [u \in 0 .. g.n - 1 |->
                              IF u \in lighter THEN Some(v) ELSE loc.prev[u]],
                !.queue = popped.queue \cup
                              {<<min_weight(g, v, u), u>> : u \in lighter}]

\* list.reverse()
RECURSIVE Reverse(_)
Reverse(sq) ==
    IF sq = << >> THEN << >> ELSE Append(Reverse(Tail(sq)), Head(sq))

\* prim(graph, s), up to the while loop
PrimCall ==
    \E s \in -1 .. n :
        /\ pc = "build"
        /\ start' = s
        /\ IF ~(0 <= s /\ s < n)
           THEN /\ result' = << >>
                /\ pc' = "done"
                /\ UNCHANGED <<dist, prev, queue>>
           ELSE /\ dist' = prim_enter(Graph, s).dist
                /\ prev' = prim_enter(Graph, s).prev
                /\ queue' = prim_enter(Graph, s).queue
                /\ pc' = "prim_loop"
                /\ UNCHANGED result
        /\ UNCHANGED <<gvars, lab4vars, end, current, path>>

\* One pass of the while loop; after the last, the for loop starts at end = 0
PrimIter ==
    /\ pc = "prim_loop"
    /\ queue # {}
    /\ LET loc == prim_iter(Graph, [dist |-> dist, prev |-> prev, queue |-> queue])
       IN  /\ dist' = loc.dist
           /\ prev' = loc.prev
           /\ queue' = loc.queue
           /\ IF loc.queue = {}
              THEN /\ pc' = "prim_paths"
                   /\ end' = 0
                   /\ current' = Some(0)
              ELSE UNCHANGED <<pc, end, current>>
    /\ UNCHANGED <<gvars, lab4vars, start, path, result>>

\* One pass of "while current is not None".  A walk that has collected more
\* than n vertices is on a cycle of prev and never ends: it is cut there.
PrimWalk ==
    /\ pc = "prim_paths"
    /\ current # None
    /\ Len(path) <= n
    /\ path' = Append(path, Val(current))
    /\ current' = prev[Val(current)]
    /\ UNCHANGED <<pc, gvars, lab4vars, start, end, dist, prev, queue, result>>

\* The walk has ended: the path is reversed and stored, and the for loop
\* goes on to the next vertex or prim returns
PrimPathDone ==
    /\ pc = "prim_paths"
    /\ current = None
    /\ result' = Append(result, Reverse(path))
    /\ path' = << >>
    /\ IF end + 1 < n
       THEN /\ end' = end + 1
            /\ current' = Some(end + 1)
            /\ UNCHANGED pc
       ELSE /\ pc' = "done"
            /\ UNCHANGED <<end, current>>
    /\ UNCHANGED <<gvars, lab4vars, start, dist, prev, queue>>

PrimNext ==
    \/ BuildEdge(PrimWeights)
    \/ PrimCall
    \/ PrimIter
    \/ PrimWalk
    \/ PrimPathDone

SpecPrim == BuildInit /\ [][PrimNext]_vars

----------------------------------------------------------------------------
(* Claims about prim *)

\* Following pr from every vertex reaches a vertex with no parent
ParentsAcyclic(pr, size) ==
    \A v \in 0 .. size - 1 : Len(WalkBack(pr, Some(v), size + 1)) <= size

\* The vertices joined to those of seen by edges of g, in either direction
RECURSIVE Component(_, _)
Component(g, seen) ==
    LET more == {u \in 0 .. g.n - 1 :
                    \E v \in seen : is_edge(g, v, u) \/ is_edge(g, u, v)}
    IN  IF more \subseteq seen THEN seen ELSE Component(g, seen \cup more)

Connected(g) == g.n = 0 \/ Component(g, {0}) = 0 .. g.n - 1

PositiveWeights(g) == \A p \in Arcs(g) : Val(weight(g, p[1], p[2])) > 0

\* The sum of f over the vertices below k
RECURSIVE SumBelow(_, _)
SumBelow(f, k) == IF k = 0 THEN 0 ELSE f[k - 1] + SumBelow(f, k - 1)

\* The total weight of the parent edges of pr (the root counts 0)
TreeWeight(g, pr) ==
    SumBelow([v \in 0 .. g.n - 1 |->
                IF pr[v] = None THEN 0 ELSE Val(weight(g, Val(pr[v]), v))], g.n)

\* The parent maps of the spanning trees of g rooted at s
SpanningTrees(g, s) ==
    {pr \in [0 .. g.n - 1 -> {None} \cup {Some(u) : u \in 0 .. g.n - 1}] :
        /\ pr[s] = None
        /\ \A v \in (0 .. g.n - 1) \ {s} :
                pr[v] # None /\ is_edge(g, Val(pr[v]), v)
        /\ ParentsAcyclic(pr, g.n)}

\* The path prim stores for v, given that the walk from v ends
PathTo(pr, size, v) == WalkBack(pr, Some(v), size + 1)

\* C9 (as claimed): prim terminates for every graph and in-range start: once
\* the queue loop has emptied the queue, the walk along the parent pointers
\* from every vertex reaches a vertex with no parent (prev holds no cycle).
C9_PrimParentsAcyclic ==
    pc = "prim_paths" => ParentsAcyclic(prev, n)

\* C10 (as claimed): for a connected undirected graph with positive weights
\* and in-range start, the parent pointers prim ends its queue loop with give,
\* for every v, a sequence from start to v along graph edges, and form a
\* spanning tree of least total weight.
C10_PrimMinimumSpanningTree ==
    (/\ pc \in {"prim_paths", "done"}
     /\ InRange(Graph, start)
     /\ graph_type = "UNDIRECTED"
     /\ Connected(Graph)
     /\ PositiveWeights(Graph)) =>
        /\ prev \in SpanningTrees(Graph, start)
        /\ \A v \in 0 .. n - 1 :
                /\ Head(PathTo(prev, n, v)) = start
                /\ PathTo(prev, n, v)[Len(PathTo(prev, n, v))] = v
        /\ \A t \in SpanningTrees(Graph, start) :
                TreeWeight(Graph, prev) <= TreeWeight(Graph, t)
        /\ pc = "done" => result = [v \in 1 .. n |-> PathTo(prev, n, v - 1)]

\* The calls that do return on such a graph return a minimum spanning tree
PrimReturnedTreeMinimal ==
    (/\ pc = "done"
     /\ InRange(Graph, start)
     /\ graph_type = "UNDIRECTED"
     /\ Connected(Graph)
     /\ PositiveWeights(Graph)) =>
        /\ prev \in SpanningTrees(Graph, start)
        /\ \A t \in SpanningTrees(Graph, start) :
                TreeWeight(Graph, prev) <= TreeWeight(Graph, t)

----------------------------------------------------------------------------
(* edmonds_karp (src/lab4/flow.py) *)

\* The dataclass FlowEdge; graph[v] is a Python list, here a sequence, so
\* the 0-based index i of the code is the position i + 1
FlowEdge(to, rev_i, capacity, flow) ==
    [to |-> to, rev_i |-> rev_i, capacity |-> capacity, flow |-> flow]

\* FlowEdge.residual_capacity
residual_capacity(edge) == edge.capacity - edge.flow

\* The loop "for e in edges" from edge k on: the residual network gr and
\* the places fw of the forward edges in it
RECURSIVE BuildResidual(_, _, _, _)
BuildResidual(es, k, gr, fw) ==
    IF k > Len(es) THEN [graph |-> gr, forward_edges |-> fw]
    ELSE LET v == es[k][1]
             u == es[k][2]
             cap == es[k][3]
             forward_edge == FlowEdge(v, Len(gr[v]), cap, 0)
             backward_edge == FlowEdge(u, Len(gr[u]), 0, 0)
             gr1 == [gr EXCEPT ![v] = Append(@, forward_edge)]
             gr2 == [gr1 EXCEPT ![u] = Append(@, backward_edge)]
         IN  BuildResidual(es, k + 1, gr2, Append(fw, <<v, Len(gr[v]) + 1>>))

\* The loop "for edge in graph[v]" of the BFS from edge i on; parent[x] is
\* None or <<v, i>>, the vertex before x and the place of the edge taken
RECURSIVE BfsEdges(_, _, _, _, _)
BfsEdges(gr, v, i, st, src) ==
    IF i > Len(gr[v]) THEN st
    ELSE LET edge == gr[v][i]
         IN  IF residual_capacity(edge) <= 0 THEN BfsEdges(gr, v, i + 1, st, src)
             ELSE IF st.parent[edge.to] # None \/ edge.to = src
                  THEN BfsEdges(gr, v, i + 1, st, src)
             ELSE BfsEdges(gr, v, i + 1,
                     [parent |-> [st.parent EXCEPT ![edge.to] = <<v, i>>],
                      queue  |-> Append(st.queue, edge.to)], src)

\* while queue and parent[sink] is None
RECURSIVE BfsQueue(_, _, _, _)
BfsQueue(gr, st, src, snk) ==
    IF st.queue = << >> \/ st.parent[snk] # None THEN st.parent
    ELSE BfsQueue(gr,
            BfsEdges(gr, Head(st.queue), 1,
                     [st EXCEPT !.queue = Tail(st.queue)], src),
            src, snk)

\* The first walk from sink to source: the least residual capacity met
RECURSIVE PathFlow(_, _, _, _, _)
PathFlow(gr, parent, cur, src, path_flow) ==
    IF cur = src THEN path_flow
    ELSE LET edge == gr[parent[cur][1]][parent[cur][2]]
         IN  PathFlow(gr, parent, parent[cur][1], src,
                      Min(path_flow, residual_capacity(edge)))

\* The second walk: the flow is added to each edge and taken from its twin
RECURSIVE PushFlow(_, _, _, _, _)
PushFlow(gr, parent, cur, src, path_flow) ==
    IF cur = src THEN gr
    ELSE LET v == parent[cur][1]
             i == parent[cur][2]
             edge == gr[v][i]
             gr1 == [gr EXCEPT ![v][i].flow = @ + path_flow]
             gr2 == [gr1 EXCEPT ![edge.to][edge.rev_i + 1].flow = @ - path_flow]
         IN  PushFlow(gr2, parent, v, src, path_flow)

\* One pass of "while True": the BFS, then the break or the augmentation
flow_phase(nn, gr, mf, src, snk) ==
    LET parent == BfsQueue(gr,
                    [parent |-> [x \in 0 .. nn - 1 |-> None], queue |-> <<src>>],
                    src, snk)
    IN  IF parent[snk] = None
        THEN [found |-> FALSE, graph |-> gr, max_flow |-> mf]
        ELSE LET path_flow == PathFlow(gr, parent, snk, src, Inf)
             IN  [found |-> TRUE,
                  graph |-> PushFlow(gr, parent, snk, src, path_flow),
                  max_flow |-> mf + path_flow]

\* A mutant of result_edges: capacity and flow change places
result_edges_swapped(es, gr, fw) ==
    [k \in 1 .. Len(es) |->
        FlowEdge(es[k][1], es[k][2], gr[fw[k][1]][fw[k][2]].flow, es[k][3])]

\* A mutant of result_edges: the residual capacity is reported as the flow
result_edges_residual(es, gr, fw) ==
    [k \in 1 .. Len(es) |->
        FlowEdge(es[k][1], es[k][2], es[k][3],
                 residual_capacity(gr[fw[k][1]][fw[k][2]]))]

\* The edges returned: the input's endpoints and capacity, the flow found
result_edges(es, gr, fw) ==
    [k \in 1 .. Len(es) |->
        FlowEdge(es[k][1], es[k][2], es[k][3], gr[fw[k][1]][fw[k][2]].flow)]

\* A mutant of zero_edges: source = sink is answered like an argument out of
\* range
zero_edges_none(es) == << >>

\* The edges returned when source = sink
zero_edges(es) ==
    [k \in 1 .. Len(es) |-> FlowEdge(es[k][1], es[k][2], es[k][3], 0)]

----------------------------------------------------------------------------
(* An edge list is drawn, then edmonds_karp is called on it *)

\* The network of the second scenario: n = 4, edges 0->1:3, 0->2:2, 1->3:2,
\* 2->3:3, 1->2:1
Scenario2Edges == <<<<0, 1, 3>>, <<0, 2, 2>>, <<1, 3, 2>>, <<2, 3, 3>>, <<1, 2, 1>>>>

NoGraph ==
    /\ adj_matrix = << >>
    /\ graph_type = "UNDIRECTED"
    /\ rt = TripOff

FlowInit ==
    /\ pc = "input"
    /\ NoGraph
    /\ NoSearch
    /\ \/ n \in 0 .. FlowN /\ edges = << >>
       \/ n = 4 /\ edges = Scenario2Edges
    /\ source = 0
    /\ sink = 0
    /\ graph = << >>
    /\ forward_edges = << >>
    /\ max_flow = 0
    /\ NoMatch
    /\ NoAStar
    /\ NoCli

\* The caller reads one more edge v -> u with capacity cap
InputEdge ==
    \E v \in 0 .. n - 1, u \in 0 .. n - 1, cap \in Capacities :
        /\ pc = "input"
        /\ Len(edges) < MaxFlowEdges
        /\ edges' = Append(edges, <<v, u, cap>>)
        /\ UNCHANGED <<pc, gvars, svars, source, sink, graph, forward_edges,
                       max_flow, mvars, avars, cvars>>

\* edmonds_karp(n, edges, s, t), up to "while True"
FlowCall ==
    \E s \in -1 .. n, t \in -1 .. n :
        /\ pc = "input"
        /\ source' = s
        /\ sink' = t
        /\ IF n <= 0 \/ ~(0 <= s /\ s < n) \/ ~(0 <= t /\ t < n)
           THEN /\ result' = <<0, << >> >>
                /\ pc' = "done"
                /\ UNCHANGED <<graph, forward_edges>>
           ELSE IF s = t
           THEN /\ result' = <<0, zero_edges(edges)>>
                /\ pc' = "done"
                /\ UNCHANGED <<graph, forward_edges>>
           ELSE LET built == BuildResidual(edges, 1, [x \in 0 .. n - 1 |-> << >>], << >>)
                IN  /\ graph' = built.graph
                    /\ forward_edges' = built.forward_edges
                    /\ pc' = "flow_loop"
                    /\ UNCHANGED result
        /\ UNCHANGED <<gvars, start, end, dist, prev, queue, current, path,
                       edges, max_flow, mvars, avars>>
        /\ Completes

\* One pass of "while True"; after the break the result is put together
FlowPhase ==
    /\ pc = "flow_loop"
    /\ LET ph == flow_phase(n, graph, max_flow, source, sink)
       IN  IF ph.found
           THEN /\ graph' = ph.graph
                /\ max_flow' = ph.max_flow
                /\ UNCHANGED <<pc, result>>
           ELSE /\ result' = <<max_flow, result_edges(edges, graph, forward_edges)>>
                /\ pc' = "done"
                /\ UNCHANGED <<graph, max_flow>>
    /\ UNCHANGED <<gvars, start, end, dist, prev, queue, current, path,
                   edges, source, sink, forward_edges, mvars, avars>>
    /\ Completes

FlowNext ==
    \/ InputEdge
    \/ FlowCall
    \/ FlowPhase

SpecFlow == FlowInit /\ [][FlowNext]_vars

----------------------------------------------------------------------------
(* Claims about edmonds_karp *)

\* The sum of the capacities of the edges 1 .. k of es that leave the set S
RECURSIVE CutCapacity(_, _, _)
CutCapacity(es, k, S) ==
    IF k = 0 THEN 0
    ELSE CutCapacity(es, k - 1, S) +
         (IF es[k][1] \in S /\ es[k][2] \notin S THEN es[k][3] ELSE 0)

\* The value of a minimum cut between s and t
MinCut(nn, es, s, t) ==
    LET cuts == {CutCapacity(es, Len(es), S \cup {s}) :
                    S \in SUBSET ((0 .. nn - 1) \ {s, t})}
    IN  CHOOSE x \in cuts : \A y \in cuts : x <= y

\* C2 (as claimed): for in-range source # sink the maximum flow edmonds_karp
\* returns equals the value of a minimum source-sink cut; on the second
\* scenario's network with source 0 and sink 3 it is 4.
C2_MaxFlowIsMinCut ==
    (pc = "done" /\ 0 <= source /\ source < n /\ 0 <= sink /\ sink < n
                 /\ source # sink) =>
        /\ result[1] = MinCut(n, edges, source, sink)
        /\ (n = 4 /\ edges = Scenario2Edges /\ source = 0 /\ sink = 3) =>
                result[1] = 4

----------------------------------------------------------------------------
(* check_bipartite, hopcroft_karp, solve_matching (src/lab4/matching.py) *)

\* The loop "for u, v in edges" of check_bipartite from edge k on
RECURSIVE BuildAdj(_, _, _)
BuildAdj(es, k, adj) ==
    IF k > Len(es) THEN adj
    ELSE LET u == es[k][1]
             v == es[k][2]
             adj1 == [adj EXCEPT ![u] = Append(@, v)]
         IN  BuildAdj(es, k + 1, [adj1 EXCEPT ![v] = Append(@, u)])

\* The loop "for u in adj[v]" from the i-th neighbour on; st holds colors,
\* the deque q and ok, which is FALSE once "return False, colors" is met
RECURSIVE ColorNeighbours(_, _, _, _)
ColorNeighbours(adj, v, i, st) ==
    IF i > Len(adj[v]) THEN st
    ELSE LET u == adj[v][i]
         IN  IF st.colors[u] = -1
             THEN ColorNeighbours(adj, v, i + 1,
                    [st EXCEPT !.colors[u] = 1 - st.colors[v],
                               !.q = Append(@, u)])
             ELSE IF st.colors[u] = st.colors[v]
             THEN [st EXCEPT !.ok = FALSE]
             ELSE ColorNeighbours(adj, v, i + 1, st)

\* while q
RECURSIVE ColorQueue(_, _)
ColorQueue(adj, st) ==
    IF ~st.ok \/ st.q = << >> THEN st
    ELSE ColorQueue(adj,
            ColorNeighbours(adj, Head(st.q), 1, [st EXCEPT !.q = Tail(@)]))

\* A mutant of ColorFrom: only the component of vertex 0 is coloured
ColorFrom_first_only(nn, adj, s, st) ==
    IF ~st.ok \/ s >= nn \/ s > 0 THEN st
    ELSE ColorQueue(adj, [st EXCEPT !.colors[s] = 0, !.q = <<s>>])

\* for start in range(n), from s on
RECURSIVE ColorFrom(_, _, _, _)
ColorFrom(nn, adj, s, st) ==
    IF ~st.ok \/ s >= nn THEN st
    ELSE IF st.colors[s] # -1 THEN ColorFrom(nn, adj, s + 1, st)
    ELSE ColorFrom(nn, adj, s + 1,
            ColorQueue(adj, [st EXCEPT !.colors[s] = 0, !.q = <<s>>]))

check_bipartite(nn, es) ==
    LET st == ColorFrom(nn, BuildAdj(es, 1, [x \in 0 .. nn - 1 |-> << >>]), 0,
                        [ok     |-> TRUE,
                         colors |-> [x \in 0 .. nn - 1 |-> -1],
                         q      |-> << >>])
    IN  <<st.ok, st.colors>>

\* The loop "for u, v in edges" of hopcroft_karp from edge k on
RECURSIVE BuildForward(_, _, _, _)
BuildForward(es, k, left, fadj) ==
    IF k > Len(es) THEN fadj
    ELSE LET u == es[k][1]
             v == es[k][2]
         IN  BuildForward(es, k + 1, left,
                IF u \in left THEN [fadj EXCEPT ![u] = Append(@, v)]
                ELSE IF v \in left THEN [fadj EXCEPT ![v] = Append(@, u)]
                ELSE fadj)

\* "for v in left_partition": CPython visits a set of small non-negative
\* integers in ascending order
RECURSIVE Ascending(_)
Ascending(S) ==
    IF S = {} THEN << >>
    ELSE LET m == CHOOSE x \in S : \A y \in S : x <= y
         IN  <<m>> \o Ascending(S \ {m})

\* bfs(), its first loop: the free left vertices get layer 0 and are queued
bfs_enter(left, pv, d) ==
    [dist  |-> [v \in DOMAIN d |->
                    IF v \in left THEN (IF pv[v] # -1 THEN Inf ELSE 0)
                    ELSE d[v]],
     dq    |-> SelectSeq(Ascending(left), LAMBDA v : pv[v] = -1),
     found |-> FALSE]

\* bfs(), the loop "for u in forward_adj[v]" from the i-th neighbour on
RECURSIVE BfsNeighbours(_, _, _, _, _)
BfsNeighbours(fadj, pu, v, i, st) ==
    IF i > Len(fadj[v]) THEN st
    ELSE LET u == fadj[v][i]
         IN  IF pu[u] = -1
             THEN BfsNeighbours(fadj, pu, v, i + 1, [st EXCEPT !.found = TRUE])
             ELSE IF st.dist[pu[u]] = Inf
             THEN BfsNeighbours(fadj, pu, v, i + 1,
                    [st EXCEPT !.dist[pu[u]] = Plus(st.dist[v], 1),
                               !.dq = Append(@, pu[u])])
             ELSE BfsNeighbours(fadj, pu, v, i + 1, st)

\* bfs(), while dq
RECURSIVE BfsLayers(_, _, _)
BfsLayers(fadj, pu, st) ==
    IF st.dq = << >> THEN st
    ELSE BfsLayers(fadj, pu,
            BfsNeighbours(fadj, pu, Head(st.dq), 1, [st EXCEPT !.dq = Tail(@)]))

\* A mutant of bfs: only the neighbours of the free left vertices are looked at
bfs_first_layer(left, fadj, pv, pu, d) ==
    LET st == bfs_enter(left, pv, d)
    IN  [st EXCEPT !.found =
            \E k \in 1 .. Len(st.dq) :
                \E i \in 1 .. Len(fadj[st.dq[k]]) : pu[fadj[st.dq[k]][i]] = -1]

\* A mutant of bfs: a free left vertex with a neighbour counts as a path found
bfs_any_free_left(left, fadj, pv, pu, d) ==
    [BfsLayers(fadj, pu, bfs_enter(left, pv, d)) EXCEPT
        !.found = \E v \in left : pv[v] = -1 /\ fadj[v] # << >>]

\* bfs(): the layers of this phase, and whether a free right vertex was met
bfs(left, fadj, pv, pu, d) == BfsLayers(fadj, pu, bfs_enter(left, pv, d))

\* dfs(v): st holds pair_v, pair_u, dist and ok, the value returned
RECURSIVE dfs(_, _, _)

RECURSIVE DfsNeighbours(_, _, _, _)

\* A mutant of DfsNeighbours: pair_u is not written
DfsNeighbours_no_pair_u(fadj, v, i, st) ==
    IF i > Len(fadj[v]) THEN [st EXCEPT !.dist[v] = Inf, !.ok = FALSE]
    ELSE LET u == fadj[v][i]
             pu == st.pair_u[u]
             deeper == dfs(fadj, pu, st)
         IN  IF pu = -1
             THEN [st EXCEPT !.pair_v[v] = u, !.ok = TRUE]
             ELSE IF st.dist[pu] = Plus(st.dist[v], 1)
             THEN IF deeper.ok
                  THEN [deeper EXCEPT !.pair_v[v] = u]
                  ELSE DfsNeighbours(fadj, v, i + 1, deeper)
             ELSE DfsNeighbours(fadj, v, i + 1, st)

\* dfs(v), the loop "for u in forward_adj[v]" from the i-th neighbour on
DfsNeighbours(fadj, v, i, st) ==
    IF i > Len(fadj[v]) THEN [st EXCEPT !.dist[v] = Inf, !.ok = FALSE]
    ELSE LET u == fadj[v][i]
             pu == st.pair_u[u]
             deeper == dfs(fadj, pu, st)
         IN  IF pu = -1
             THEN [st EXCEPT !.pair_v[v] = u, !.pair_u[u] = v, !.ok = TRUE]
             ELSE IF st.dist[pu] = Plus(st.dist[v], 1)
             THEN IF deeper.ok
                  THEN [deeper EXCEPT !.pair_v[v] = u, !.pair_u[u] = v]
                  ELSE DfsNeighbours(fadj, v, i + 1, deeper)
             ELSE DfsNeighbours(fadj, v, i + 1, st)

dfs(fadj, v, st) == DfsNeighbours(fadj, v, 1, st)

\* The list hopcroft_karp returns
matching(left, pv) ==
    LET matched == SelectSeq(Ascending(left), LAMBDA u : pv[u] # -1)
    IN  [k \in 1 .. Len(matched) |-> <<matched[k], pv[matched[k]]>>]

----------------------------------------------------------------------------
(* An edge list is drawn, then solve_matching is called on it *)

\* The triangle of the third scenario
Scenario3Edges == <<<<0, 1>>, <<1, 2>>, <<2, 0>>>>

\* The 4-cycle of the fourth scenario
Scenario4Edges == <<<<0, 1>>, <<1, 2>>, <<2, 3>>, <<3, 0>>>>

MatchInit ==
    /\ pc = "input"
    /\ NoGraph
    /\ NoSearch
    /\ \/ n \in 0 .. MatchN /\ edges = << >>
       \/ n = 3 /\ edges = Scenario3Edges
       \/ n = 4 /\ edges = Scenario4Edges
    /\ source = 0
    /\ sink = 0
    /\ graph = << >>
    /\ forward_edges = << >>
    /\ max_flow = 0
    /\ NoMatch
    /\ NoAStar
    /\ NoCli

\* The caller reads one more edge u - v
MatchInputEdge ==
    \E u \in 0 .. n - 1, v \in 0 .. n - 1 :
        /\ pc = "input"
        /\ Len(edges) < MaxMatchEdges
        /\ edges' = Append(edges, <<u, v>>)
        /\ UNCHANGED <<pc, gvars, svars, source, sink, graph, forward_edges,
                       max_flow, mvars, avars, cvars>>

\* solve_matching(n, edges), up to the loop "while bfs()" of hopcroft_karp
MatchCall ==
    /\ pc = "input"
    /\ LET cb == check_bipartite(n, edges)
           left == {i \in 0 .. n - 1 : cb[2][i] = 0}
       IN  /\ colors' = cb[2]
           /\ IF ~cb[1]
              THEN /\ result' = <<FALSE, << >> >>
                   /\ pc' = "done"
                   /\ UNCHANGED <<left_partition, forward_adj, pair_v, pair_u, dist>>
              ELSE /\ left_partition' = left
                   /\ forward_adj' =
                        BuildForward(edges, 1, left, [x \in 0 .. n - 1 |-> << >>])
                   /\ pair_v' = [x \in 0 .. n - 1 |-> -1]
                   /\ pair_u' = [x \in 0 .. n - 1 |-> -1]
                   /\ dist' = [x \in 0 .. n - 1 |-> Inf]
                   /\ pc' = "hk_bfs"
                   /\ UNCHANGED result
    /\ UNCHANGED <<gvars, start, end, prev, queue, current, path, fvars, todo, phases,
                   avars>>
    /\ Completes

\* The test of "while bfs()"; when it fails the matching is returned
HkBfs ==
    /\ pc = "hk_bfs"
    /\ LET b == bfs(left_partition, forward_adj, pair_v, pair_u, dist)
       IN  /\ dist' = b.dist
           /\ IF b.found
              THEN /\ todo' = Ascending(left_partition)
                   /\ phases' = phases + 1
                   /\ pc' = "hk_dfs"
                   /\ UNCHANGED result
              ELSE /\ result' = <<TRUE, matching(left_partition, pair_v)>>
                   /\ pc' = "done"
                   /\ UNCHANGED <<todo, phases>>
    /\ UNCHANGED <<gvars, start, end, prev, queue, current, path, fvars, colors,
                   left_partition, forward_adj, pair_v, pair_u, avars>>
    /\ Completes

\* One pass of "for u in left_partition" in the body of "while bfs()"
HkDfs ==
    /\ pc = "hk_dfs"
    /\ todo # << >>
    /\ LET u == Head(todo)
           d == dfs(forward_adj, u,
                    [pair_v |-> pair_v, pair_u |-> pair_u, dist |-> dist,
                     ok |-> FALSE])
       IN  IF pair_v[u] = -1
           THEN /\ pair_v' = d.pair_v
                /\ pair_u' = d.pair_u
                /\ dist' = d.dist
           ELSE UNCHANGED <<pair_v, pair_u, dist>>
    /\ todo' = Tail(todo)
    /\ phases' = phases
    /\ pc' = IF Tail(todo) = << >> THEN "hk_bfs" ELSE "hk_dfs"
    /\ UNCHANGED <<gvars, start, end, prev, queue, current, path, result, fvars,
                   colors, left_partition, forward_adj, avars, cvars>>

MatchNext ==
    \/ MatchInputEdge
    \/ MatchCall
    \/ HkBfs
    \/ HkDfs

SpecMatching == MatchInit /\ [][MatchNext]_vars

----------------------------------------------------------------------------
(* Claims about solve_matching *)

\* The vertices 0 .. nn - 1 can be split in two so that every edge crosses
Bipartite(nn, es) ==
    \E c \in [0 .. nn - 1 -> {0, 1}] :
        \A k \in 1 .. Len(es) : c[es[k][1]] # c[es[k][2]]

\* The pairs of the sequence ps are edges of es, no two sharing a vertex
IsMatching(es, ps) ==
    /\ \A k \in 1 .. Len(ps) :
            \E j \in 1 .. Len(es) :
                es[j] = ps[k] \/ es[j] = <<ps[k][2], ps[k][1]>>
    /\ \A k \in 1 .. Len(ps) : ps[k][1] # ps[k][2]
    /\ \A j, k \in 1 .. Len(ps) :
            j # k => {ps[j][1], ps[j][2]} \cap {ps[k][1], ps[k][2]} = {}

\* The size of a largest set of edges of es no two of which share a vertex
MaxMatchingSize(es) ==
    LET disjoint == {K \in SUBSET (1 .. Len(es)) :
                        /\ \A k \in K : es[k][1] # es[k][2]
                        /\ \A j, k \in K :
                             j # k => {es[j][1], es[j][2]} \cap
                                      {es[k][1], es[k][2]} = {}}
        sizes == {Cardinality(K) : K \in disjoint}
    IN  CHOOSE x \in sizes : \A y \in sizes : y <= x

\* The left vertices an alternating path from a vertex of S leads to
RECURSIVE AltReach(_, _, _)
AltReach(fadj, pu, S) ==
    LET more == UNION {{pu[fadj[v][i]] : i \in 1 .. Len(fadj[v])} : v \in S}
                    \ {-1}
    IN  IF more \subseteq S THEN S ELSE AltReach(fadj, pu, S \cup more)

\* No alternating path leads from a free left vertex to a free right one
NoAugmentingPath ==
    LET free == {v \in left_partition : pair_v[v] = -1}
    IN  \A v \in AltReach(forward_adj, pair_u, free) :
            \A i \in 1 .. Len(forward_adj[v]) : pair_u[forward_adj[v][i]] # -1

\* C3: for a bipartite input solve_matching returns (True, matching) with a
\* matching of maximum cardinality (size 2 on the 4-cycle), and when
\* hopcroft_karp stops no augmenting path from a free left vertex to a free
\* right vertex is left.
C3_MatchingMaximum ==
    (pc = "done" /\ Bipartite(n, edges)) =>
        /\ result[1] = TRUE
        /\ IsMatching(edges, result[2])
        /\ Len(result[2]) = MaxMatchingSize(edges)
        /\ NoAugmentingPath
        /\ (n = 4 /\ edges = Scenario4Edges) => Len(result[2]) = 2

\* solve_matching has returned a matching of size 2 for the 4-cycle
C3_Witness ==
    /\ pc = "done"
    /\ n = 4
    /\ edges = Scenario4Edges
    /\ result[1] = TRUE
    /\ Len(result[2]) = 2

----------------------------------------------------------------------------
(* a_star, solve_grid (src/lab4/pathfinding.py) *)

\* A grid is a sequence of rows; the cell (r, c) of the code is the pair
\* <<r, c>>, its value grid[r + 1][c + 1]
Rows(g) == Len(g)

Cols(g) == IF Len(g) # 0 THEN Len(g[1]) ELSE 0

Cells(g) == {<<r, c>> : r \in 0 .. Rows(g) - 1, c \in 0 .. Cols(g) - 1}

Abs(x) == IF x < 0 THEN 0 - x ELSE x

\* The integer part of the square root of x, which lies in lo .. hi
RECURSIVE ISqrt(_, _, _)
ISqrt(x, lo, hi) ==
    IF lo = hi THEN lo
    ELSE LET mid == (lo + hi + 1) \div 2
         IN  IF mid * mid <= x THEN ISqrt(x, mid, hi) ELSE ISqrt(x, lo, mid - 1)

\* The heuristics and the f_score are kept in thousandths, rounded down: on
\* the grids drawn here two f_scores compare as the floats of the code do
manhattan(a, b) == 1000 * (Abs(a[1] - b[1]) + Abs(a[2] - b[2]))

euclidean(a, b) ==
    LET dr == a[1] - b[1]
        dc == a[2] - b[2]
    IN  ISqrt(1000000 * (dr * dr + dc * dc), 0, 1000 * (dr * dr + dc * dc))

\* heuristic(a, b), the heuristic being given by its name
Heuristic(hname, a, b) ==
    IF hname = "manhattan" THEN manhattan(a, b) ELSE euclidean(a, b)

in_bounds(g, p) == 0 <= p[1] /\ p[1] < Rows(g) /\ 0 <= p[2] /\ p[2] < Cols(g)

is_walkable(g, p) == g[p[1] + 1][p[2] + 1] > 0

moves == <<<<1, 0>>, <<-1, 0>>, <<0, 1>>, <<0, -1>>>>

\* PathFindingResult without runtime_sec, which is a reading of the clock;
\* visited_percent is the fraction <<numerator, denominator>>
PathFindingResult(length, pth, visited, percent) ==
    [length |-> length, path |-> pth, visited_count |-> visited,
     visited_percent |-> percent]

\* PathFindingResult(math.inf, [], 0, 0.0, 0.0)
EarlyResult == PathFindingResult(Inf, << >>, 0, <<0, 1>>)

\* A mutant of EarlyReturn: only the bounds are tested
EarlyReturn_bounds_only(g, s, gl) == ~(in_bounds(g, s) /\ in_bounds(g, gl))

\* The two tests a_star makes before it searches
EarlyReturn(g, s, gl) ==
    \/ ~(in_bounds(g, s) /\ in_bounds(g, gl))
    \/ ~(is_walkable(g, s) /\ is_walkable(g, gl))

\* dist.get(p, math.inf) for a dict kept as a function to optional values
GetOrInf(d, p) == IF d[p] = None THEN Inf ELSE Val(d[p])

\* Heap entries (f_score, dist, coord) as Python orders tuples
EntryLess(x, y) ==
    \/ x[1] < y[1]
    \/ /\ x[1] = y[1]
       /\ \/ x[2] < y[2]
          \/ x[2] = y[2] /\ TupleLess(x[3], y[3])

\* heapq.heappop on the heap a_star keeps
EntryMin(q) == CHOOSE x \in q : \A y \in q : x = y \/ EntryLess(x, y)

\* a_star's locals when its loop is entered
a_star_enter(g, s, gl, hname) ==
    [dist          |-> [p \in Cells(g) |-> IF p = s THEN Some(0) ELSE None],
     prev          |-> [p \in Cells(g) |-> None],
     queue         |-> {<<0 + Heuristic(hname, s, gl), 0, s>>},
     visited_count |-> 0]

\* The loop "for dr, dc in moves" from the i-th move on
RECURSIVE a_star_moves(_, _, _, _, _, _, _)
a_star_moves(g, gl, hname, cur, current_dist, i, loc) ==
    IF i > Len(moves) THEN loc
    ELSE LET nb == <<cur[1] + moves[i][1], cur[2] + moves[i][2]>>
             step_cost == g[nb[1] + 1][nb[2] + 1]
             new_dist == current_dist + step_cost
             f_score == 1000 * new_dist + Heuristic(hname, nb, gl)
         IN  IF ~(in_bounds(g, nb) /\ is_walkable(g, nb))
             THEN a_star_moves(g, gl, hname, cur, current_dist, i + 1, loc)
             ELSE IF new_dist < GetOrInf(loc.dist, nb)
             THEN a_star_moves(g, gl, hname, cur, current_dist, i + 1,
                    [loc EXCEPT !.dist[nb] = Some(new_dist),
                                !.prev[nb] = Some(cur),
                                !.queue = @ \cup {<<f_score, new_dist, nb>>}])
             ELSE a_star_moves(g, gl, hname, cur, current_dist, i + 1, loc)

\* One pass of "while queue"; broke tells that the pass ended in "break"
a_star_iter(g, gl, hname, loc) ==
    LET top == EntryMin(loc.queue)
        current_dist == top[2]
        cur == top[3]
        popped == [dist |-> loc.dist, prev |-> loc.prev,
                   queue |-> loc.queue \ {top},
                   visited_count |-> loc.visited_count,
                   broke |-> FALSE]
        counted == [popped EXCEPT !.visited_count = @ + 1]
    IN  IF current_dist > GetOrInf(loc.dist, cur) THEN popped
        ELSE IF cur = gl THEN [counted EXCEPT !.broke = TRUE]
        ELSE a_star_moves(g, gl, hname, cur, current_dist, 1, counted)

\* The loop "while cur": a pair is never false, so the walk along prev ends
\* only where prev has no entry, with a KeyError.  After fuel steps without
\* one the walk is in a cycle and does not end.
RECURSIVE reconstruct(_, _, _)
reconstruct(pr, cur, fuel) ==
    IF pr[cur] = None THEN [raised |-> "KeyError"]
    ELSE IF fuel = 0 THEN [raised |-> "never returns"]
    ELSE reconstruct(pr, Val(pr[cur]), fuel - 1)

\* a_star after its loop: the statistics and what it returns or raises
a_star_exit(g, gl, loc) ==
    LET total_walkable == Cardinality({p \in Cells(g) : is_walkable(g, p)})
        visited_percent == IF total_walkable # 0
                           THEN <<100 * loc.visited_count, total_walkable>>
                           ELSE <<0, 1>>
    IN  IF loc.dist[gl] = None
        THEN PathFindingResult(Inf, << >>, loc.visited_count, visited_percent)
        ELSE reconstruct(loc.prev, gl, Cardinality(Cells(g)))

----------------------------------------------------------------------------
(* A grid is drawn, then a_star or solve_grid is called on it *)

\* The grid of the fifth scenario: 3 x 3, all 1
Scenario5Grid == <<<<1, 1, 1>>, <<1, 1, 1>>, <<1, 1, 1>>>>

\* The grids with at most MaxCells cells, and the empty grid
Grids ==
    {<< >>} \cup
    UNION {UNION {[1 .. r -> [1 .. c -> GridValues]] :
                    c \in 1 .. MaxCells \div r} : r \in 1 .. MaxCells}

\* Where a start or a goal is put: on a cell, or just outside the grid
Coords(g) ==
    Cells(g) \cup {<<-1, 0>>, <<0, -1>>, <<Rows(g), 0>>, <<0, Cols(g)>>}

AStarInit ==
    /\ pc = "input"
    /\ n = 0
    /\ NoGraph
    /\ NoSearch
    /\ NoFlow
    /\ NoMatch
    /\ grid \in Grids \cup {Scenario5Grid}
    /\ goal = <<0, 0>>
    /\ heuristic = "manhattan"
    /\ visited_count = 0
    /\ caller = "a_star"
    /\ results = << >>
    /\ NoCli

\* a_star(grid, s, gl, heuristic) called directly, or as the first call
\* solve_grid(grid, s, gl) makes; up to the loop "while queue"
AStarCall ==
    \E s \in Coords(grid), gl \in Coords(grid),
       hname \in {"manhattan", "euclidean"}, cl \in {"a_star", "solve_grid"} :
        /\ pc = "input"
        /\ cl = "solve_grid" => hname = "manhattan"
        /\ start' = s
        /\ goal' = gl
        /\ heuristic' = hname
        /\ caller' = cl
        /\ IF EarlyReturn(grid, s, gl)
           THEN /\ result' = IF cl = "a_star" THEN EarlyResult
                             ELSE [manhattan |-> EarlyResult,
                                   euclidean |-> EarlyResult]
                /\ pc' = "done"
                /\ UNCHANGED <<dist, prev, queue, visited_count>>
           ELSE LET loc == a_star_enter(grid, s, gl, hname)
                IN  /\ dist' = loc.dist
                    /\ prev' = loc.prev
                    /\ queue' = loc.queue
                    /\ visited_count' = loc.visited_count
                    /\ pc' = "astar_loop"
                    /\ UNCHANGED result
        /\ UNCHANGED <<gvars, end, current, path, fvars, mvars, grid, results, cvars>>

\* One pass of "while queue"
AStarIter ==
    /\ pc = "astar_loop"
    /\ queue # {}
    /\ LET loc == a_star_iter(grid, goal, heuristic,
                    [dist |-> dist, prev |-> prev, queue |-> queue,
                     visited_count |-> visited_count])
       IN  /\ dist' = loc.dist
           /\ prev' = loc.prev
           /\ queue' = loc.queue
           /\ visited_count' = loc.visited_count
           /\ pc' = IF loc.broke \/ loc.queue = {} THEN "astar_exit"
                    ELSE "astar_loop"
    /\ UNCHANGED <<gvars, start, end, current, path, result, fvars, mvars,
                   grid, goal, heuristic, caller, results, cvars>>

\* a_star from the end of its loop on; inside solve_grid the value returned
\* is stored and the second call begins or the dictionary is returned,
\* while an exception leaves solve_grid too
AStarReturn ==
    /\ pc = "astar_exit"
    /\ LET r == a_star_exit(grid, goal,
                    [dist |-> dist, prev |-> prev, queue |-> queue,
                     visited_count |-> visited_count])
           loc == a_star_enter(grid, start, goal, "euclidean")
       IN  IF "raised" \in DOMAIN r \/ caller = "a_star"
           THEN /\ result' = r
                /\ pc' = "done"
                /\ UNCHANGED <<dist, prev, queue, visited_count, heuristic, results>>
           ELSE IF heuristic = "manhattan"
           THEN /\ results' = [manhattan |-> r]
                /\ heuristic' = "euclidean"
                /\ dist' = loc.dist
                /\ prev' = loc.prev
                /\ queue' = loc.queue
                /\ visited_count' = loc.visited_count
                /\ pc' = "astar_loop"
                /\ UNCHANGED result
           ELSE /\ result' = [manhattan |-> results.manhattan, euclidean |-> r]
                /\ pc' = "done"
                /\ UNCHANGED <<dist, prev, queue, visited_count, heuristic, results>>
    /\ UNCHANGED <<gvars, start, end, current, path, fvars, mvars, grid, goal,
                   caller>>
    /\ Completes

AStarNext ==
    \/ AStarCall
    \/ AStarIter
    \/ AStarReturn

SpecAStar == AStarInit /\ [][AStarNext]_vars

----------------------------------------------------------------------------
(* Claims about a_star and solve_grid *)

\* Two cells one 4-directional step apart
Adjacent(p, q) == Abs(p[1] - q[1]) + Abs(p[2] - q[2]) = 1

\* The cells a walk over walkable cells reaches from a cell of S
RECURSIVE GridReach(_, _)
GridReach(g, S) ==
    LET more == {p \in Cells(g) :
                    is_walkable(g, p) /\ \E q \in S : Adjacent(p, q)}
    IN  IF more \subseteq S THEN S ELSE GridReach(g, S \cup more)

\* Start and goal are in bounds and walkable, and a walk joins them
GoalReachable(g, s, gl) ==
    /\ in_bounds(g, s) /\ in_bounds(g, gl)
    /\ is_walkable(g, s) /\ is_walkable(g, gl)
    /\ gl \in GridReach(g, {s})

\* The sum of the values of the cells 2 .. k of the path pth
RECURSIVE PathCost(_, _, _)
PathCost(g, pth, k) ==
    IF k <= 1 THEN 0
    ELSE PathCost(g, pth, k - 1) + g[pth[k][1] + 1][pth[k][2] + 1]

SetMin(S) == CHOOSE x \in S : \A y \in S : x <= y

\* The least costs of walks of at most k more steps, d being those so far
RECURSIVE GridDist(_, _, _)
GridDist(g, d, k) ==
    IF k = 0 THEN d
    ELSE GridDist(g,
            [p \in Cells(g) |->
                IF ~is_walkable(g, p) THEN d[p]
                ELSE SetMin({d[p]} \cup
                            {Plus(d[q], g[p[1] + 1][p[2] + 1]) :
                                q \in {x \in Cells(g) : Adjacent(p, x)}})],
            k - 1)

\* The least cost of a walk from s to gl
OptimalCost(g, s, gl) ==
    GridDist(g, [p \in Cells(g) |-> IF p = s THEN 0 ELSE Inf],
             Cardinality(Cells(g)))[gl]

\* Every walkable cell of the grid costs the same
UniformCost(g) ==
    \A p, q \in Cells(g) :
        (is_walkable(g, p) /\ is_walkable(g, q)) =>
            g[p[1] + 1][p[2] + 1] = g[q[1] + 1][q[2] + 1]

\* C4 (as claimed): whenever the goal is reachable from the start, start =
\* goal included, a_star returns a result whose path runs from start to goal
\* by single 4-directional steps over walkable cells and whose length is the
\* sum of the values of the path's cells except the first.
C4_AStarReturnsPath ==
    (pc = "done" /\ caller = "a_star" /\ GoalReachable(grid, start, goal)) =>
        /\ "raised" \notin DOMAIN result
        /\ "raised" \notin DOMAIN result =>
            LET p == result.path
            IN  /\ Len(p) >= 1
                /\ p[1] = start
                /\ p[Len(p)] = goal
                /\ \A k \in 1 .. Len(p) - 1 : Adjacent(p[k], p[k + 1])
                /\ \A k \in 1 .. Len(p) :
                        in_bounds(grid, p[k]) /\ is_walkable(grid, p[k])
                /\ result.length = PathCost(grid, p, Len(p))

\* C5 (as claimed): on a uniform-cost grid with a reachable goal solve_grid
\* returns for both heuristics a result whose length is the least path cost,
\* so the two lengths are equal; on the 3 x 3 grid of 1s from (0,0) to (2,2)
\* both are 4.
C5_HeuristicsAgree ==
    (pc = "done" /\ caller = "solve_grid" /\ UniformCost(grid)
                 /\ GoalReachable(grid, start, goal)) =>
        /\ "raised" \notin DOMAIN result
        /\ "raised" \notin DOMAIN result =>
            /\ result.manhattan.length = OptimalCost(grid, start, goal)
            /\ result.euclidean.length = OptimalCost(grid, start, goal)
            /\ (grid = Scenario5Grid /\ start = <<0, 0>> /\ goal = <<2, 2>>) =>
                    /\ result.manhattan.length = 4
                    /\ result.euclidean.length = 4

----------------------------------------------------------------------------
(* Claims about prim's keys *)

\* The least of the present weights of the pair v, u; Inf when both are absent
PresentMin(g, v, u) ==
    Min(IF weight(g, v, u) = None THEN Inf ELSE Val(weight(g, v, u)),
        IF weight(g, u, v) = None THEN Inf ELSE Val(weight(g, u, v)))

\* C11 (as claimed): when prim expands a vertex v, every other vertex u with
\* weight(v, u) or weight(u, v) present, a present 0 included, is connected
\* from v with the least of the present weights as its key whenever that key
\* is below min_edge[u]; only a pair with both weights absent is skipped.
C11_PrimKeyIsPresentMin ==
    [][(pc = "prim_loop" /\ queue # {}
            /\ HeapMin(queue)[1] <= dist[HeapMin(queue)[2]]) =>
        LET v == HeapMin(queue)[2]
        IN  \A u \in (0 .. n - 1) \ {v} :
                LET key == PresentMin(Graph, v, u)
                IN  (key # Inf /\ dist[u] > key) =>
                        /\ dist'[u] = key
                        /\ prev'[u] = Some(v)
                        /\ <<key, u>> \in queue']_vars

----------------------------------------------------------------------------
(* dijkstra_all (src/3/graph.py) *)

\* A mutant of dijkstra_all_iter: what a relaxation pushes is dropped
dijkstra_all_iter_no_push(g, loc) ==
    LET top == HeapMin(loc.queue)
        popped == [loc EXCEPT !.queue = loc.queue \ {top}]
    IN  IF top[1] > loc.dist[top[2]] THEN popped
        ELSE [Relax(g, popped, top[2]) EXCEPT !.queue = popped.queue]

\* One pass of dijkstra_all's while loop over a non-empty queue: there is no
\* early exit
dijkstra_all_iter(g, loc) ==
    LET top == HeapMin(loc.queue)
        cur_dist == top[1]
        v == top[2]
        popped == [loc EXCEPT !.queue = loc.queue \ {top}]
    IN  IF cur_dist > loc.dist[v] THEN popped ELSE Relax(g, popped, v)

\* result_paths: the entry of vertex e is the (e + 1)-th of the list
dijkstra_all_result(g, loc) ==
    [k \in 1 .. g.n |->
        <<loc.dist[k - 1], WalkBack(loc.prev, Some(k - 1), g.n + 1)>>]

\* dijkstra_all(graph, s), up to the while loop
DijkstraAllCall ==
    \E s \in -1 .. n :
        /\ pc = "build"
        /\ start' = s
        /\ IF ~(0 <= s /\ s < n)
           THEN /\ result' = << >>
                /\ pc' = "done"
                /\ UNCHANGED <<dist, prev, queue>>
           ELSE /\ dist' = dijkstra_enter(Graph, s).dist
                /\ prev' = dijkstra_enter(Graph, s).prev
                /\ queue' = dijkstra_enter(Graph, s).queue
                /\ pc' = "dijkstra_all_loop"
                /\ UNCHANGED result
        /\ UNCHANGED <<gvars, lab4vars, end, current, path>>

\* One pass of the while loop; the loop ends on an empty queue
DijkstraAllIter ==
    /\ pc = "dijkstra_all_loop"
    /\ queue # {}
    /\ LET loc == dijkstra_all_iter(Graph,
                    [dist |-> dist, prev |-> prev, queue |-> queue, brk |-> FALSE])
       IN  /\ dist' = loc.dist
           /\ prev' = loc.prev
           /\ queue' = loc.queue
           /\ pc' = IF loc.queue = {} THEN "dijkstra_all_paths" ELSE pc
    /\ UNCHANGED <<gvars, lab4vars, start, end, current, path, result>>

\* The code after the loop: the paths are rebuilt and the list is returned
DijkstraAllReturn ==
    /\ pc = "dijkstra_all_paths"
    /\ result' = dijkstra_all_result(Graph,
                    [dist |-> dist, prev |-> prev, queue |-> queue])
    /\ pc' = "done"
    /\ UNCHANGED <<gvars, lab4vars, start, end, dist, prev, queue, current, path>>

DijkstraAllNext ==
    \/ BuildEdge(AlgWeights)
    \/ DijkstraAllCall
    \/ DijkstraAllIter
    \/ DijkstraAllReturn

SpecDijkstraAll == BuildInit /\ [][DijkstraAllNext]_vars

----------------------------------------------------------------------------
(* Claims about dijkstra_all *)

\* The vertices a directed path over edges of g leads to from a vertex of S
RECURSIVE ReachableFrom(_, _)
ReachableFrom(g, S) ==
    LET more == {v \in 0 .. g.n - 1 : \E u \in S : <<u, v>> \in Arcs(g)}
    IN  IF more \subseteq S THEN S ELSE ReachableFrom(g, S \cup more)

\* C12 (as claimed): in the list dijkstra_all returns, the entry of a vertex
\* unreachable from start is (+infinity, []) and the entry of a reachable
\* vertex has a path that begins at start.
C12_DijkstraAllEntries ==
    (pc = "done" /\ InRange(Graph, start)) =>
        \A v \in 0 .. n - 1 :
            IF v \in ReachableFrom(Graph, {start})
            THEN result[v + 1][2] # << >> /\ result[v + 1][2][1] = start
            ELSE result[v + 1] = <<Inf, << >> >>

----------------------------------------------------------------------------
(* Claims about the path dijkstra returns *)

\* The sum of the weights of the edges between the first k vertices of p
RECURSIVE PathWeight(_, _, _)
PathWeight(g, p, k) ==
    IF k <= 1 THEN 0
    ELSE PathWeight(g, p, k - 1) + Val(weight(g, p[k - 1], p[k]))

\* C13: for in-range start and end and non-negative weights, a finite
\* distance comes with a path from start to end whose consecutive vertices
\* differ and are joined by edges of the graph, the weights of which add up
\* to the distance; for start = end the result is (0, [start]).
C13_DijkstraPathMatchesDistance ==
    (pc = "done" /\ InRange(Graph, start) /\ InRange(Graph, end)
                 /\ result[1] # Some(Inf)) =>
        LET p == result[2]
        IN  /\ Len(p) >= 1
            /\ p[1] = start
            /\ p[Len(p)] = end
            /\ \A k \in 1 .. Len(p) - 1 :
                    p[k] # p[k + 1] /\ weight(Graph, p[k], p[k + 1]) # None
            /\ PathWeight(Graph, p, Len(p)) = Val(result[1])
            /\ start = end => result = <<Some(0), <<start>> >>

\* dijkstra has returned a path of two edges, found after a first, heavier
\* route to end had been recorded
C13_Witness ==
    /\ pc = "done"
    /\ InRange(Graph, start) /\ InRange(Graph, end)
    /\ result[1] # Some(Inf)
    /\ Len(result[2]) = 3
    /\ weight(Graph, start, end) # None
    /\ Val(result[1]) < Val(weight(Graph, start, end))

\* C14: for in-range start and end dijkstra returns exactly (+infinity, [])
\* when no directed path leads from start to end, and neither +infinity nor
\* an empty path when one does.
C14_DijkstraUnreachable ==
    (pc = "done" /\ InRange(Graph, start) /\ InRange(Graph, end)) =>
        IF end \in ReachableFrom(Graph, {start})
        THEN result[1] # Some(Inf) /\ result[2] # << >>
        ELSE result = <<Some(Inf), << >> >>

\* dijkstra has returned for an end that no path from start leads to, on a
\* graph that has edges
C14_Witness ==
    /\ pc = "done"
    /\ InRange(Graph, start) /\ InRange(Graph, end)
    /\ end \notin ReachableFrom(Graph, {start})
    /\ \E v \in 0 .. n - 1 : <<start, v>> \in Arcs(Graph)
    /\ result = <<Some(Inf), << >> >>

\* C15: dijkstra returns the sentinel (None, []) exactly when start or end
\* is outside 0 .. n - 1; for in-range arguments the distance is never None,
\* so the sentinel differs from (+infinity, []) and from a distance 0.
C15_DijkstraSentinel ==
    pc = "done" =>
        /\ result = <<None, << >> >> <=>
                ~(InRange(Graph, start) /\ InRange(Graph, end))
        /\ (InRange(Graph, start) /\ InRange(Graph, end)) => result[1] # None
        /\ result[1] = None =>
                result # <<Some(Inf), << >> >> /\ result[1] # Some(0)

\* dijkstra has returned the sentinel for an end beyond the last vertex
C15_Witness ==
    /\ pc = "done"
    /\ InRange(Graph, start)
    /\ end = n
    /\ result = <<None, << >> >>

\* C16: after dijkstra_all on a graph with non-negative weights the returned
\* distances satisfy dist[v] <= dist[u] + w for every edge (u, v, w), u # v,
\* whose tail u has a finite distance, and dist[start] = 0.
C16_DijkstraAllRelaxed ==
    (pc = "done" /\ InRange(Graph, start)) =>
        /\ result[start + 1][1] = 0
        /\ \A p \in Arcs(Graph) :
                (p[1] # p[2] /\ result[p[1] + 1][1] # Inf) =>
                    result[p[2] + 1][1] <=
                        result[p[1] + 1][1] + Val(weight(Graph, p[1], p[2]))

\* dijkstra_all has returned on a graph with an edge out of a vertex that is
\* itself at a positive finite distance from start
C16_Witness ==
    /\ pc = "done"
    /\ InRange(Graph, start)
    /\ \E p \in Arcs(Graph) :
            /\ p[1] # p[2]
            /\ p[2] # start
            /\ result[p[1] + 1][1] # Inf
            /\ result[p[1] + 1][1] > 0

----------------------------------------------------------------------------
(* Claims about the flows edmonds_karp keeps and returns *)

\* C17: with non-negative capacities every forward edge has 0 <= flow <=
\* capacity after every augmentation step and in the returned edge list.
C17_FlowWithinCapacity ==
    /\ pc = "flow_loop" =>
            \A k \in 1 .. Len(forward_edges) :
                LET e == graph[forward_edges[k][1]][forward_edges[k][2]]
                IN  0 <= e.flow /\ e.flow <= e.capacity
    /\ pc = "done" =>
            \A k \in 1 .. Len(result[2]) :
                0 <= result[2][k].flow /\ result[2][k].flow <= result[2][k].capacity

\* edmonds_karp has returned the edge list of a network in which an edge
\* leads from the source to the sink
C17_Witness ==
    /\ pc = "done"
    /\ source # sink
    /\ 0 <= source /\ source < n /\ 0 <= sink /\ sink < n
    /\ Len(result[2]) = Len(edges)
    /\ \E k \in 1 .. Len(edges) : edges[k][1] = source /\ edges[k][2] = sink

\* The sum of the flows of the edges 1 .. k of the list res that leave v,
\* less the sum of those that enter it
RECURSIVE NetOut(_, _, _)
NetOut(res, k, v) ==
    IF k = 0 THEN 0
    ELSE NetOut(res, k - 1, v)
         + (IF res[k].to = v THEN res[k].flow ELSE 0)
         - (IF res[k].rev_i = v THEN res[k].flow ELSE 0)

\* C18: in the returned edge list (an edge is returned with its tail in the
\* field "to" and its head in the field "rev_i") the flows entering a vertex
\* other than source and sink add up to the flows leaving it, and the
\* returned max_flow is the net flow leaving the source.
C18_FlowConservation ==
    pc = "done" =>
        /\ \A v \in (0 .. n - 1) \ {source, sink} :
                NetOut(result[2], Len(result[2]), v) = 0
        /\ (result[2] # << >> /\ source # sink) =>
                result[1] = NetOut(result[2], Len(result[2]), source)
        /\ result[2] = << >> => result[1] = 0

\* edmonds_karp has returned on the second scenario's network, which has
\* two vertices besides source and sink
C18_Witness ==
    /\ pc = "done"
    /\ n = 4
    /\ edges = Scenario2Edges
    /\ source = 0
    /\ sink = 3
    /\ Len(result[2]) = 5

\* C19: edmonds_karp returns (0, []) when n <= 0 or source or sink is
\* outside 0 .. n - 1; when source = sink, in range, it returns flow 0 and
\* one edge per input edge, in input order, with the input's endpoints and
\* capacity and flow 0; the input edge list is left as it was.
C19_FlowDegenerate ==
    [][(pc = "input" /\ pc' = "done") =>
        /\ edges' = edges
        /\ IF n <= 0 \/ ~(0 <= source' /\ source' < n)
                     \/ ~(0 <= sink' /\ sink' < n)
           THEN result' = <<0, << >> >>
           ELSE /\ source' = sink'
                /\ result'[1] = 0
                /\ Len(result'[2]) = Len(edges)
                /\ \A k \in 1 .. Len(edges) :
                        result'[2][k] = [to |-> edges[k][1], rev_i |-> edges[k][2],
                                         capacity |-> edges[k][3], flow |-> 0]]_vars

\* edmonds_karp has returned for source = sink on a network with edges
C19_Witness ==
    /\ pc = "done"
    /\ 0 <= source /\ source < n
    /\ source = sink
    /\ edges # << >>
    /\ Len(result[2]) = Len(edges)
    /\ result[1] = 0

----------------------------------------------------------------------------
(* Claims about check_bipartite *)

\* The vertices joined to v by an edge of es
Neighbours(es, v) ==
    {es[k][2] : k \in {j \in 1 .. Len(es) : es[j][1] = v}}
        \cup {es[k][1] : k \in {j \in 1 .. Len(es) : es[j][2] = v}}

\* The pairs <<vertex, parity>> that walks along edges of es reach from S
RECURSIVE ParityReach(_, _)
ParityReach(es, S) ==
    LET more == UNION {{<<x, 1 - p[2]>> : x \in Neighbours(es, p[1])} : p \in S}
    IN  IF more \subseteq S THEN S ELSE ParityReach(es, S \cup more)

\* Some closed walk has odd length, so the graph contains an odd cycle
HasOddCycle(nn, es) ==
    \E v \in 0 .. nn - 1 : <<v, 1>> \in ParityReach(es, {<<v, 0>>})

\* C20: check_bipartite returns False as its first component exactly when
\* the graph contains an odd cycle, a self-loop being one (the triangle gives
\* False); when it returns True every vertex is coloured 0 or 1 and every
\* edge joins vertices of different colours.
C20_BipartiteIffNoOddCycle ==
    pc = "done" =>
        /\ result[1] = FALSE <=> HasOddCycle(n, edges)
        /\ (n = 3 /\ edges = Scenario3Edges) => result[1] = FALSE
        /\ result[1] = TRUE =>
                /\ \A v \in 0 .. n - 1 : colors[v] \in {0, 1}
                /\ \A k \in 1 .. Len(edges) :
                        colors[edges[k][1]] # colors[edges[k][2]]

\* solve_matching has returned False for the triangle
C20_Witness ==
    /\ pc = "done"
    /\ n = 3
    /\ edges = Scenario3Edges
    /\ result[1] = FALSE

----------------------------------------------------------------------------
(* Claims about the pairs hopcroft_karp keeps and returns *)

\* pair_v and pair_u name each other: no vertex is in two pairs
PairsAgree(pv, pu) ==
    /\ \A u \in DOMAIN pv : pv[u] # -1 => pu[pv[u]] = u
    /\ \A v \in DOMAIN pu : pu[v] # -1 => pv[pu[v]] = v

----------------------------------------------------------------------------
(* Claims about the unreachable results of a_star *)

\* The cell p lies in the grid and its value is not 0
ValidCell(g, p) ==
    /\ 0 <= p[1] /\ p[1] < Len(g)
    /\ 0 <= p[2] /\ p[2] < Len(g[1])
    /\ g[p[1] + 1][p[2] + 1] # 0

\* C22: when start or goal lies outside the grid or on a cell of value 0,
\* a_star returns (+infinity, [], visited_count 0, visited_percent 0) and
\* searches nothing; when both are valid but no walk over walkable cells
\* joins them it returns length +infinity and an empty path.
C22_AStarUnreachable ==
    (pc = "done" /\ caller = "a_star") =>
        /\ ~(ValidCell(grid, start) /\ ValidCell(grid, goal)) =>
                /\ result = [length |-> Inf, path |-> << >>,
                             visited_count |-> 0, visited_percent |-> <<0, 1>>]
                /\ dist = << >>
                /\ queue = {}
                /\ visited_count = 0
        /\ (ValidCell(grid, start) /\ ValidCell(grid, goal)
                /\ goal \notin GridReach(grid, {start})) =>
                /\ "raised" \notin DOMAIN result
                /\ result.length = Inf
                /\ result.path = << >>

\* a_star has searched from a valid start and returned without a path to a
\* valid goal behind a wall
C22_Witness ==
    /\ pc = "done"
    /\ caller = "a_star"
    /\ ValidCell(grid, start) /\ ValidCell(grid, goal)
    /\ goal \notin GridReach(grid, {start})
    /\ visited_count >= 1
    /\ result.length = Inf
    /\ result.path = << >>

----------------------------------------------------------------------------
(* Claims about the effect of single calls on a Graph *)

\* Size and every weight are as before the step
SameGraph ==
    /\ n' = n
    /\ \A i \in 0 .. n - 1, j \in 0 .. n - 1 :
            weight(Graph', i, j) = weight(Graph, i, j)

\* C23: remove_vertex(k) with 0 <= k < n makes the size one less and the new
\* weight(i, j) the old weight(i', j'), x' being x below k and x + 1 from k
\* on; remove_vertex(k) with k out of range and remove_edge(a, b) with an
\* index out of range (negative ones included) change no size and no weight.
C23_RemoveReindexes ==
    [][/\ (rt'.stage = "call" /\ rt'.op = "remove_vertex") =>
            LET k == rt'.a
                was(x) == IF x < k THEN x ELSE x + 1
            IN  IF 0 <= k /\ k < n
                THEN /\ n' = n - 1
                     /\ \A i \in 0 .. n - 2, j \in 0 .. n - 2 :
                            weight(Graph', i, j) = weight(Graph, was(i), was(j))
                ELSE SameGraph
       /\ (rt'.stage = "call" /\ rt'.op = "remove_edge"
                /\ ~(0 <= rt'.a /\ rt'.a < n /\ 0 <= rt'.b /\ rt'.b < n)) =>
            SameGraph]_vars

\* remove_vertex(0) has just been called on a graph of two vertices, and the
\* weight that add_edge(1, 1, w) had set is now weight(0, 0)
C23_Witness ==
    /\ rt.stage = "call"
    /\ rt.op = "remove_vertex"
    /\ rt.a = 0
    /\ n = 1
    /\ weight(Graph, 0, 0) \in {Some(w) : w \in TripWeights}

\* The graph has grown to size new_size: old weights kept, 0 on the new
\* diagonal, every other new entry absent, but for the entries in set, which
\* hold w
GrownTo(new_size, set, w) ==
    /\ n' = new_size
    /\ \A i \in 0 .. new_size - 1, j \in 0 .. new_size - 1 :
            weight(Graph', i, j) =
                IF <<i, j>> \in set THEN Some(w)
                ELSE IF i < n /\ j < n THEN weight(Graph, i, j)
                ELSE IF i = j THEN Some(0)
                ELSE None

\* C24: add_vertex(k) with k >= n makes the size k + 1, keeps every weight
\* there was, makes weight(i, i) = 0 for each new vertex i and leaves every
\* other new entry absent; add_vertex(k) with k < n changes nothing;
\* add_edge(a, b, w) with max(a, b) >= n makes the size max(a, b) + 1 in the
\* same way and, a and b being vertex numbers, then makes weight(a, b) = w,
\* and weight(b, a) = w in an undirected graph only.
C24_AddGrows ==
    [][/\ (rt'.stage = "call" /\ rt'.op = "add_vertex") =>
            IF rt'.a >= n THEN GrownTo(rt'.a + 1, {}, 0) ELSE SameGraph
       /\ (rt'.stage = "call" /\ rt'.op = "add_edge" /\ Max(rt'.a, rt'.b) >= n) =>
            LET a == rt'.a
                b == rt'.b
            IN  IF a >= 0 /\ b >= 0
                THEN GrownTo(Max(a, b) + 1,
                             IF graph_type = "UNDIRECTED"
                             THEN {<<a, b>>, <<b, a>>} ELSE {<<a, b>>},
                             rt'.w)
                ELSE /\ n' = Max(a, b) + 1
                     /\ \A i \in 0 .. n - 1, j \in 0 .. n - 1 :
                            weight(Graph', i, j) = weight(Graph, i, j)]_vars

\* add_edge(0, 1, w) has just made a directed graph grow to two vertices:
\* weight(0, 1) is w, weight(1, 0) absent, the new diagonal entry 0
C24_Witness ==
    /\ rt.stage = "call"
    /\ rt.op = "add_edge"
    /\ rt.a = 0
    /\ rt.b = MaxN - 1
    /\ graph_type = "DIRECTED"
    /\ n = MaxN
    /\ weight(Graph, 0, MaxN - 1) = Some(rt.w)
    /\ weight(Graph, MaxN - 1, 0) = None
    /\ weight(Graph, MaxN - 1, MaxN - 1) = Some(0)

----------------------------------------------------------------------------
(* The Graph's queries: list_of_edges, connected_components, is_connected *)

\* "for j in range(j, n)" over row i: a triple for each present entry off the
\* diagonal, followed by its reverse when both is set
RECURSIVE RowEdges(_, _, _, _)
RowEdges(g, i, j, both) ==
    IF j >= g.n THEN << >>
    ELSE (IF g.adj_matrix[i][j] # None /\ i # j
          THEN <<<<i, j, Val(g.adj_matrix[i][j])>>>>
                \o (IF both THEN <<<<j, i, Val(g.adj_matrix[i][j])>>>> ELSE << >>)
          ELSE << >>)
         \o RowEdges(g, i, j + 1, both)

\* A mutant of AllEdges: the rows of an undirected graph are read in full
RECURSIVE AllEdges_full_rows(_, _)
AllEdges_full_rows(g, i) ==
    IF i >= g.n THEN << >>
    ELSE RowEdges(g, i, 0, g.graph_type = "UNDIRECTED")
            \o AllEdges_full_rows(g, i + 1)

\* "for i in range(n)" of list_of_edges, from row i on
RECURSIVE AllEdges(_, _)
AllEdges(g, i) ==
    IF i >= g.n THEN << >>
    ELSE LET min_j == IF g.graph_type = "DIRECTED" THEN 0 ELSE i + 1
         IN  RowEdges(g, i, min_j, g.graph_type = "UNDIRECTED")
                \o AllEdges(g, i + 1)

\* Graph.list_of_edges; a_i is None when the argument is left out
list_of_edges(g, a_i) ==
    IF a_i # None
    THEN IF 0 <= Val(a_i) /\ Val(a_i) < g.n
         THEN RowEdges(g, Val(a_i), 0, FALSE)
         ELSE << >>
    ELSE AllEdges(g, 0)

\* "for u in range(n)" of connected_components, from u on: what is pushed
RECURSIVE Pushed(_, _, _)
Pushed(g, v, u) ==
    IF u >= g.n THEN << >>
    ELSE (IF (g.adj_matrix[v][u] # None \/ g.adj_matrix[u][v] # None) /\ v # u
          THEN <<u>> ELSE << >>)
         \o Pushed(g, v, u + 1)

\* "while q" of connected_components
RECURSIVE Traverse(_, _, _, _)
Traverse(g, q, visited, component) ==
    IF q = << >>
    THEN [visited |-> visited, component |-> component]
    ELSE LET v    == q[Len(q)]
             rest == SubSeq(q, 1, Len(q) - 1)
         IN  IF v \in visited
             THEN Traverse(g, rest, visited, component)
             ELSE Traverse(g, rest \o Pushed(g, v, 0),
                           visited \cup {v}, component \cup {v})

\* A mutant of Components: a vertex already visited starts a component too
RECURSIVE Components_no_skip(_, _, _, _)
Components_no_skip(g, i, visited, components) ==
    IF i >= g.n THEN components
    ELSE LET r == Traverse(g, <<i>>, visited, {})
         IN  Components_no_skip(g, i + 1, r.visited, Append(components, r.component))

\* "for i in range(n)" of connected_components, from i on
RECURSIVE Components(_, _, _, _)
Components(g, i, visited, components) ==
    IF i >= g.n THEN components
    ELSE IF i \in visited
    THEN Components(g, i + 1, visited, components)
    ELSE LET r == Traverse(g, <<i>>, visited, {})
         IN  Components(g, i + 1, r.visited, Append(components, r.component))

\* Graph.connected_components
connected_components(g) == Components(g, 0, {}, << >>)

\* Graph.is_connected
is_connected(g) ==
    IF g.n = 0 THEN TRUE ELSE Len(connected_components(g)) = 1

\* Graph(size = k, graph_type = t), k = 0 included, or the Graph of the
\* first scenario
QueryInit ==
    /\ pc = "build"
    /\ rt = CallsOn
    /\ \/ /\ n \in 0 .. AlgN
          /\ adj_matrix = EmptyMatrix(n)
          /\ graph_type \in {"DIRECTED", "UNDIRECTED"}
       \/ /\ n = Scenario1.n
          /\ adj_matrix = Scenario1.adj_matrix
          /\ graph_type = Scenario1.graph_type
    /\ NoSearch
    /\ NoLab4

\* remove_edge(a, b) on vertices of the Graph
QueryRemoveEdge ==
    \E a_i \in 0 .. n - 1, b_i \in 0 .. n - 1 :
        /\ pc = "build"
        /\ a_i # b_i
        /\ is_edge(Graph, a_i, b_i)
        /\ SetGraph(remove_edge(Graph, a_i, b_i))
        /\ UNCHANGED <<pc, rt, notGraph>>

\* list_of_edges() and list_of_edges(a_i)
ListOfEdges ==
    \E a_i \in {None} \cup {Some(v) : v \in (0 - 1) .. n} :
        /\ pc = "build"
        /\ result' = list_of_edges(Graph, a_i)
        /\ rt' = Called("list_of_edges", a_i, 0, 0)
        /\ pc' = "done"
        /\ UNCHANGED <<n, adj_matrix, graph_type, lab4vars,
                       start, end, dist, prev, queue, current, path>>

\* connected_components()
ConnectedComponents ==
    /\ pc = "build"
    /\ result' = connected_components(Graph)
    /\ rt' = Called("connected_components", 0, 0, 0)
    /\ pc' = "done"
    /\ UNCHANGED <<n, adj_matrix, graph_type, lab4vars,
                   start, end, dist, prev, queue, current, path>>

\* is_connected()
IsConnected ==
    /\ pc = "build"
    /\ result' = is_connected(Graph)
    /\ rt' = Called("is_connected", 0, 0, 0)
    /\ pc' = "done"
    /\ UNCHANGED <<n, adj_matrix, graph_type, lab4vars,
                   start, end, dist, prev, queue, current, path>>

QueryNext ==
    \/ BuildEdge(AlgWeights)
    \/ QueryRemoveEdge
    \/ ListOfEdges
    \/ ConnectedComponents
    \/ IsConnected

\* A Graph is built, then asked for its edges or its components
SpecGraphQueries == QueryInit /\ [][QueryNext]_vars

----------------------------------------------------------------------------
(* Claims about the Graph's queries *)

\* How often x occurs in the sequence s
Occurrences(s, x) == Cardinality({k \in 1 .. Len(s) : s[k] = x})

\* The triples (i, j, weight(i, j)) of the pairs i # j with a present weight
PresentTriples(g) ==
    {<<p[1], p[2], Val(weight(g, p[1], p[2]))>> :
        p \in {q \in (0 .. g.n - 1) \X (0 .. g.n - 1) :
                    q[1] # q[2] /\ weight(g, q[1], q[2]) # None}}

\* C25: list_of_edges() holds each triple (i, j, weight(i, j)), i # j, of a
\* present weight exactly once and nothing else, so that an undirected edge
\* is there twice, as (i, j, w) and as (j, i, w); list_of_edges(v) holds
\* exactly the triples (v, j, weight(v, j)), j # v, of present weights, once
\* each, and is empty when v is out of range.
C25_ListOfEdges ==
    (pc = "done" /\ rt.stage = "call" /\ rt.op = "list_of_edges") =>
        LET triples == IF rt.a = None
                       THEN PresentTriples(Graph)
                       ELSE {t \in PresentTriples(Graph) : t[1] = Val(rt.a)}
        IN  /\ \A k \in 1 .. Len(result) : result[k] \in triples
            /\ \A t \in triples : Occurrences(result, t) = 1
            /\ (graph_type = "UNDIRECTED" /\ rt.a = None) =>
                    \A t \in triples :
                        Occurrences(result, <<t[2], t[1], t[3]>>) = 1
            /\ (rt.a # None /\ ~(0 <= Val(rt.a) /\ Val(rt.a) < n)) =>
                    result = << >>

\* list_of_edges() has returned the edges of an undirected graph with two
\* edges of different weights
C25_Witness ==
    /\ pc = "done"
    /\ rt.stage = "call"
    /\ rt.op = "list_of_edges"
    /\ rt.a = None
    /\ graph_type = "UNDIRECTED"
    /\ Len(result) = 4
    /\ \E k, l \in 1 .. Len(result) : result[k][3] # result[l][3]

\* The sets of vertices joined in g by paths of pairs (v, u), v # u, with
\* weight(v, u) or weight(u, v) present
WeakComponents(g) == {Component(g, {v}) : v \in 0 .. g.n - 1}

\* C26: connected_components() returns non-empty sets of vertices with every
\* vertex of 0 .. n-1 in exactly one of them, two vertices sharing a set if
\* and only if a path of pairs (v, u), v # u, with weight(v, u) or
\* weight(u, v) present joins them; is_connected() is True exactly when
\* n = 0 or there is exactly one component.
C26_ComponentsPartition ==
    /\ (pc = "done" /\ rt.stage = "call" /\ rt.op = "connected_components") =>
            /\ \A k \in 1 .. Len(result) :
                    result[k] # {} /\ result[k] \subseteq 0 .. n - 1
            /\ \A v \in 0 .. n - 1 :
                    Cardinality({k \in 1 .. Len(result) : v \in result[k]}) = 1
            /\ \A v \in 0 .. n - 1, u \in 0 .. n - 1 :
                    (\E k \in 1 .. Len(result) : v \in result[k] /\ u \in result[k])
                        <=> u \in Component(Graph, {v})
    /\ (pc = "done" /\ rt.stage = "call" /\ rt.op = "is_connected") =>
            (result <=> (n = 0 \/ Cardinality(WeakComponents(Graph)) = 1))

\* connected_components() has returned one set for a directed graph of three
\* vertices in which vertex 1 has no outgoing arc: 0 and 2 are joined only
\* through arcs taken against their direction
C26_Witness ==
    /\ pc = "done"
    /\ rt.stage = "call"
    /\ rt.op = "connected_components"
    /\ graph_type = "DIRECTED"
    /\ n = 3
    /\ Len(result) = 1
    /\ EdgeCount(Graph) = 2
    /\ \A u \in 0 .. n - 1 : ~is_edge(Graph, 1, u)

\* is_connected() has returned False for a graph that has edges
C26_WitnessNotConnected ==
    /\ pc = "done"
    /\ rt.stage = "call"
    /\ rt.op = "is_connected"
    /\ result = FALSE
    /\ EdgeCount(Graph) > 0

----------------------------------------------------------------------------
(* The commands of lab4's main: max_flow, shortest_path, matching *)

\* How many edges an input file of a command holds at most
MaxCliEdges == 2

\* The input file has been parsed: n for max_flow and matching (no edge read
\* so far), a grid that is not empty for shortest_path
CliInit ==
    /\ pc = "parsed"
    /\ NoGraph
    /\ NoSearch
    /\ NoFlow
    /\ NoMatch
    /\ goal = <<0, 0>>
    /\ heuristic = "manhattan"
    /\ visited_count = 0
    /\ caller = "solve_grid"
    /\ results = << >>
    /\ exit_code = None
    /\ output = None
    /\ \/ command = "max_flow" /\ n \in 0 .. FlowN /\ grid = << >>
       \/ command = "matching" /\ n \in 0 .. MatchN /\ grid = << >>
       \/ /\ command = "shortest_path"
          /\ n = 0
          /\ grid \in (Grids \ {<< >>}) \cup {Scenario5Grid}

\* parse_adj_weighted reads one more pair "v capacity" from the line of u
ParseAdjPair ==
    \E u \in 0 .. n - 1, v \in (0 - 1) .. n, cap \in Capacities :
        /\ pc = "parsed"
        /\ command = "max_flow"
        /\ Len(edges) < MaxCliEdges
        /\ edges' = Append(edges, <<u, v, cap>>)
        /\ UNCHANGED <<pc, gvars, svars, source, sink, graph, forward_edges,
                       max_flow, mvars, avars, cvars>>

\* parse_edge_list_graph reads one more line "u v"
ParseEdgeLine ==
    \E u \in (0 - 1) .. n, v \in (0 - 1) .. n :
        /\ pc = "parsed"
        /\ command = "matching"
        /\ Len(edges) < MaxCliEdges
        /\ edges' = Append(edges, <<u, v>>)
        /\ UNCHANGED <<pc, gvars, svars, source, sink, graph, forward_edges,
                       max_flow, mvars, avars, cvars>>

\* raise SystemExit(1) before anything is written
Exit1 ==
    /\ pc' = "done"
    /\ exit_code' = Some(1)
    /\ UNCHANGED <<command, output>>

\* cmd_max_flow up to the call of edmonds_karp
CmdMaxFlow ==
    /\ pc = "parsed"
    /\ command = "max_flow"
    /\ IF \E k \in 1 .. Len(edges) :
            ~(0 <= edges[k][1] /\ edges[k][1] < n)
                \/ ~(0 <= edges[k][2] /\ edges[k][2] < n)
       THEN Exit1
       ELSE pc' = "input" /\ UNCHANGED cvars
    /\ UNCHANGED <<gvars, svars, fvars, mvars, avars>>

\* cmd_matching up to the call of solve_matching
CmdMatching ==
    /\ pc = "parsed"
    /\ command = "matching"
    /\ IF \E k \in 1 .. Len(edges) :
            ~(0 <= edges[k][1] /\ edges[k][1] < n
                /\ 0 <= edges[k][2] /\ edges[k][2] < n)
       THEN Exit1
       ELSE pc' = "input" /\ UNCHANGED cvars
    /\ UNCHANGED <<gvars, svars, fvars, mvars, avars>>

\* cmd_shortest_path with the options --start s and --goal gl, up to the
\* loop "while queue" of the first a_star call solve_grid makes
CmdShortestPath ==
    \E s \in Coords(grid), gl \in Coords(grid) :
        /\ pc = "parsed"
        /\ command = "shortest_path"
        /\ start' = s
        /\ goal' = gl
        /\ IF ~(in_bounds(grid, s) /\ in_bounds(grid, gl))
           THEN /\ Exit1
                /\ UNCHANGED <<dist, prev, queue, visited_count, result>>
           ELSE IF grid[s[1] + 1][s[2] + 1] = 0 \/ grid[gl[1] + 1][gl[2] + 1] = 0
           THEN /\ Exit1
                /\ UNCHANGED <<dist, prev, queue, visited_count, result>>
           ELSE IF EarlyReturn(grid, s, gl)
           THEN /\ result' = [manhattan |-> EarlyResult, euclidean |-> EarlyResult]
                /\ pc' = "done"
                /\ exit_code' = Some(0)
                /\ output' = Some(result')
                /\ UNCHANGED <<command, dist, prev, queue, visited_count>>
           ELSE LET loc == a_star_enter(grid, s, gl, "manhattan")
                IN  /\ dist' = loc.dist
                    /\ prev' = loc.prev
                    /\ queue' = loc.queue
                    /\ visited_count' = loc.visited_count
                    /\ pc' = "astar_loop"
                    /\ UNCHANGED <<result, cvars>>
        /\ UNCHANGED <<gvars, end, current, path, fvars, mvars, grid, heuristic,
                       caller, results>>

CliNext ==
    \/ ParseAdjPair
    \/ ParseEdgeLine
    \/ CmdMaxFlow
    \/ command = "max_flow" /\ FlowCall
    \/ FlowPhase
    \/ CmdMatching
    \/ command = "matching" /\ MatchCall
    \/ HkBfs
    \/ HkDfs
    \/ CmdShortestPath
    \/ AStarIter
    \/ AStarReturn

\* One run of a command of lab4's main on a parsed input file
SpecCli == CliInit /\ [][CliNext]_vars

----------------------------------------------------------------------------
(* Claims about the commands *)

\* An endpoint of edge e lies outside [0, n)
EndpointOutside(e) ==
    ~(0 <= e[1] /\ e[1] < n /\ 0 <= e[2] /\ e[2] < n)

\* The input of the command that ran holds an out-of-range vertex or
\* coordinate
OutOfRangeInput ==
    \/ /\ command \in {"max_flow", "matching"}
       /\ \E k \in 1 .. Len(edges) : EndpointOutside(edges[k])
    \/ /\ command = "max_flow"
       /\ ~(0 <= source /\ source < n /\ 0 <= sink /\ sink < n)
    \/ /\ command = "shortest_path"
       /\ ~(in_bounds(grid, start) /\ in_bounds(grid, goal))

\* C27 (as claimed): a command exits with code 1, the output file not
\* written, when its parsed input holds an out-of-range vertex or coordinate
\* (an edge endpoint, a max_flow source or sink, a start or goal), and with
\* code 0, the report written, otherwise.
C27_ExitCodes ==
    (pc = "done" /\ command # "none") =>
        IF OutOfRangeInput
        THEN exit_code = Some(1) /\ output = None
        ELSE exit_code = Some(0) /\ output # None

\* What holds of the exit codes: 1 and nothing written for an edge endpoint
\* or a coordinate out of range; matching exits with 0 and a report
\* otherwise; the output file is written exactly when the code is 0
C27_ChecksMade ==
    (pc = "done" /\ command # "none") =>
        /\ ((\E k \in 1 .. Len(edges) : EndpointOutside(edges[k]))
                => exit_code = Some(1))
        /\ (command = "shortest_path"
                /\ ~(in_bounds(grid, start) /\ in_bounds(grid, goal)))
                => exit_code = Some(1)
        /\ (command = "matching" /\ ~OutOfRangeInput) => exit_code = Some(0)
        /\ exit_code \in {Some(0), Some(1)}
        /\ (exit_code = Some(0)) <=> (output # None)

\* max_flow has exited with 0 and a report although the sink is out of range
C27_SinkOutside ==
    ~(/\ pc = "done"
      /\ command = "max_flow"
      /\ n > 0
      /\ 0 <= source /\ source < n
      /\ sink = n
      /\ exit_code = Some(0))

\* shortest_path, start and goal on walkable cells of the grid, always
\* exits with 0
C27_ShortestPathExits0 ==
    (/\ pc = "done"
     /\ command = "shortest_path"
     /\ in_bounds(grid, start) /\ in_bounds(grid, goal)
     /\ is_walkable(grid, start) /\ is_walkable(grid, goal))
        => exit_code = Some(0)

----------------------------------------------------------------------------
(* Claims about the residual network of edmonds_karp *)

\* The place <<x, i>> of graph[e.to][e.rev_i] for the edge e at place <<x, i>>
Twin(p) == <<graph[p[1]][p[2]].to, graph[p[1]][p[2]].rev_i + 1>>

\* The places of the residual edges
Places == UNION {{<<x, i>> : i \in 1 .. Len(graph[x])} : x \in DOMAIN graph}

\* C28 (as claimed): once the residual network is built, the forward edge of
\* each input edge (v, u, cap) is in the list of v with to = u, capacity cap
\* and flow 0, its backward edge is in the list of u with to = v, capacity 0
\* and flow 0, and graph[e.to][e.rev_i] is for every residual edge e its
\* paired reverse edge, from which (to, rev_i) leads back to e.
C28_ResidualPairs ==
    (pc = "flow_loop" /\ max_flow = 0) =>
        /\ \A k \in 1 .. Len(edges) :
                LET v   == edges[k][1]
                    u   == edges[k][2]
                    cap == edges[k][3]
                    f   == forward_edges[k]
                IN  /\ f[1] = v
                    /\ graph[v][f[2]].to = u
                    /\ graph[v][f[2]].capacity = cap
                    /\ graph[v][f[2]].flow = 0
                    /\ Twin(f) \in Places
                    /\ Twin(f)[1] = u
                    /\ graph[u][Twin(f)[2]].to = v
                    /\ graph[u][Twin(f)[2]].capacity = 0
                    /\ graph[u][Twin(f)[2]].flow = 0
        /\ \A p \in Places :
                /\ Twin(p) \in Places
                /\ Twin(p) # p
                /\ Twin(Twin(p)) = p

\* What the code builds instead: every residual edge has its own list as
\* target, and graph[e.to][e.rev_i] is e itself unless the input edge is a
\* self-loop
C28_SelfLoopsBuilt ==
    (pc = "flow_loop" /\ max_flow = 0) =>
        /\ \A p \in Places : graph[p[1]][p[2]].to = p[1]
        /\ \A k \in 1 .. Len(edges) :
                edges[k][1] # edges[k][2] => Twin(forward_edges[k]) = forward_edges[k]

----------------------------------------------------------------------------
(* Claims about the phases of hopcroft_karp *)

\* Once hopcroft_karp runs, its loops go on until their tests fail: the next
\* test of "while bfs()" and the next pass of "for u in left_partition" are
\* made whenever they are due
SpecMatchingLive ==
    /\ SpecMatching
    /\ WF_vars(HkBfs)
    /\ WF_vars(HkDfs)

\* The size of the matching that pair_v holds
MatchingSize == Cardinality({v \in left_partition : pair_v[v] # -1})

InHopcroftKarp == pc \in {"hk_bfs", "hk_dfs"}

\* C29: hopcroft_karp terminates on every bipartite input.  bfs() puts
\* exactly the free left vertices in layer 0, and a phase, begun because
\* bfs() returned True, ends with one of them matched: a dfs from a free
\* left vertex has succeeded.  No step makes the matching smaller, each
\* completed phase has made it larger by at least one, and the loop is left
\* after at most |L| phases.
C29_PhasesMakeProgress ==
    /\ (pc = "hk_bfs") ~> (pc = "done")
    /\ [][/\ (pc = "hk_bfs" /\ pc' = "hk_dfs") =>
                \A v \in left_partition : (dist'[v] = 0) <=> (pair_v[v] = -1)
          /\ (pc = "hk_dfs" /\ pc' = "hk_bfs") =>
                \E v \in left_partition : dist'[v] = 0 /\ pair_v'[v] # -1
          /\ (InHopcroftKarp /\ pc' # "done") => MatchingSize' >= MatchingSize]_vars
    /\ [](InHopcroftKarp =>
            /\ MatchingSize <= Cardinality(left_partition)
            /\ pc = "hk_bfs" => phases <= MatchingSize
            /\ phases <= Cardinality(left_partition))
    /\ [](pc = "done" /\ result[1] = TRUE => phases <= Cardinality(left_partition))

\* hopcroft_karp has returned after two phases
C29_Witness ==
    /\ pc = "done"
    /\ phases = 2
    /\ Len(result[2]) = 2

=============================================================================
